---------------------------- MODULE Spec2Model ----------------------------
(***************************************************************************)
(* Monte Carlo fund simulation engine of pmf-simulator                     *)
(* (src/src/lib/simulation.ts): the seeded linear-congruential generator,  *)
(* the two outcome samplers, the single-run simulator and the driver.      *)
(*                                                                         *)
(* Numbers.  The generator's state is a JavaScript number (an IEEE-754     *)
(* double) that always holds an integer.  It is modelled exactly, as a     *)
(* sign and a magnitude written in base-65536 limbs (least significant     *)
(* first), and every multiplication and addition of the generator is       *)
(* rounded to 53 significant bits, ties to even, as the double arithmetic  *)
(* of the source rounds it.  A uniform draw seed / 2^32 is exact for       *)
(* |seed| < 2^32 and is carried as its numerator.                          *)
(***************************************************************************)
EXTENDS Integers, Sequences, FiniteSets, TLC

VARIABLES
    pc,           \* position of the driver / of the run in progress
    args,         \* arguments of the call in progress: params, numSimulations, seed
    rng,          \* the SeededRandom object: its seed field, and a count of random() calls
    simulations,  \* the driver's simulations array
    run,          \* locals of the simulateFundOnce call in progress
    returned,     \* what the calls made so far returned: the last result and the one before
    clock,        \* Date.now(), and whether the call in progress has read it
    probe,        \* what the last direct call of a generator or sampler method did
    db,           \* the database: the valuation_updates table and one investments row
    requests      \* the POST requests on /api/valuations and how far each has come

vars == <<pc, args, rng, simulations, run, returned, clock, probe, db, requests>>

-----------------------------------------------------------------------------
(* Integers wider than 31 bits: limbs in base 65536, least significant first *)

Base == 2 ^ 16

\* seven limbs: magnitudes below 2^112, which holds the exact product of two
\* 53-bit significands
NumLimbs == 3 + 4

Zero == [i \in 1..NumLimbs |-> 0]

Pow2(k) == 2 ^ k

\* A limb sequence of a number given by its two low limbs (value hi * 65536 + lo).
Word(hi, lo) == [i \in 1..NumLimbs |-> IF i = 1 THEN lo ELSE IF i = 2 THEN hi ELSE 0]

RECURSIVE MulFrom(_, _, _, _)
MulFrom(x, c, i, carry) ==
    IF i > NumLimbs THEN <<>>
    ELSE LET t == x[i] * c + carry
         IN  <<t % Base>> \o MulFrom(x, c, i + 1, t \div Base)

\* x * c for a factor 0 <= c <= 32768
MulSmall(x, c) == MulFrom(x, c, 1, 0)

RECURSIVE AddFrom(_, _, _, _)
AddFrom(x, y, i, carry) ==
    IF i > NumLimbs THEN <<>>
    ELSE LET t == x[i] + y[i] + carry
         IN  <<t % Base>> \o AddFrom(x, y, i + 1, t \div Base)

Add(x, y) == AddFrom(x, y, 1, 0)

\* x * c for a factor 0 <= c < 2^30
Times(x, c) ==
    IF c <= 32768 THEN MulSmall(x, c)
    ELSE Add(MulSmall(x, c % 32768), MulSmall(MulSmall(x, c \div 32768), 32768))

RECURSIVE SubFrom(_, _, _, _)
SubFrom(x, y, i, borrow) ==
    IF i > NumLimbs THEN <<>>
    ELSE LET t == x[i] - y[i] - borrow
         IN  IF t < 0 THEN <<t + Base>> \o SubFrom(x, y, i + 1, 1)
                      ELSE <<t>> \o SubFrom(x, y, i + 1, 0)

\* x - y for x >= y
Sub(x, y) == SubFrom(x, y, 1, 0)

Less(x, y) ==
    \E i \in 1..NumLimbs :
        /\ x[i] < y[i]
        /\ \A j \in (i + 1)..NumLimbs : x[j] = y[j]

\* x * 65536
ShiftLimb(x) == [i \in 1..NumLimbs |-> IF i = 1 THEN 0 ELSE x[i - 1]]

Bit(x, k) == (x[(k \div 16) + 1] \div Pow2(k % 16)) % 2

TopLimb(x) ==
    CHOOSE i \in 1..NumLimbs : x[i] # 0 /\ \A j \in (i + 1)..NumLimbs : x[j] = 0

BitsOf(w) == CHOOSE k \in 1..16 : Pow2(k - 1) <= w /\ w < Pow2(k)

BitsThrough(x, top) == 16 * (top - 1) + BitsOf(x[top])

BitLen(x) == IF x = Zero THEN 0 ELSE BitsThrough(x, TopLimb(x))

\* x with its q low bits cleared
Truncated(x, q) ==
    [i \in 1..NumLimbs |->
        IF 16 * i <= q THEN 0
        ELSE IF 16 * (i - 1) >= q THEN x[i]
        ELSE (x[i] \div Pow2(q - 16 * (i - 1))) * Pow2(q - 16 * (i - 1))]

Ulp(q) == [i \in 1..NumLimbs |-> IF i = (q \div 16) + 1 THEN Pow2(q % 16) ELSE 0]

\* round to nearest, ties to even: the guard bit and (a sticky bit or an odd
\* last place)
RoundsUp(x, q) ==
    /\ Bit(x, q - 1) = 1
    /\ \/ \E k \in 0..(q - 2) : Bit(x, k) = 1
       \/ Bit(x, q) = 1

RoundAt(x, q) ==
    IF q <= 0 THEN x
    ELSE IF RoundsUp(x, q) THEN Add(Truncated(x, q), Ulp(q))
    ELSE Truncated(x, q)

\* The nearest double of the integer x: 53 significant bits, ties to even.
RoundDouble(x) == RoundAt(x, BitLen(x) - 53)

\* A JavaScript number holding an integer: sign and magnitude.
Num(neg, mag) == [neg |-> neg /\ mag # Zero, mag |-> mag]

Small(n) == Num(n < 0, Word(0, IF n < 0 THEN 0 - n ELSE n))

-----------------------------------------------------------------------------
(* Doubles that need not be integers: a sign, an odd significand below 2^53   *)
(* and a binary exponent, the value being man * 2^exp.  Every operation is    *)
(* computed exactly and then rounded to 53 significant bits, ties to even.    *)
(* Exponents stay far from the overflow and underflow range.                  *)

RECURSIVE MulLimbs(_, _, _)
MulLimbs(x, y, j) ==
    IF j > NumLimbs THEN Zero
    ELSE Add(Times(x, y[j]), ShiftLimb(MulLimbs(x, y, j + 1)))

\* x * y, exact below 2^112
Mul(x, y) == MulLimbs(x, y, 1)

\* limb j of x, 0 outside x
LimbAt(x, j) == IF j >= 1 /\ j <= NumLimbs THEN x[j] ELSE 0

\* x * 2^(16 * q + r)
ShiftedLeft(x, q, r) ==
    [i \in 1..NumLimbs |->
        ((LimbAt(x, i - q) * Pow2(r)) % Base) + (LimbAt(x, i - q - 1) \div Pow2(16 - r))]

\* x \div 2^(16 * q + r)
ShiftedRight(x, q, r) ==
    [i \in 1..NumLimbs |->
        (LimbAt(x, i + q) \div Pow2(r)) + ((LimbAt(x, i + q + 1) % Pow2(r)) * Pow2(16 - r))]

\* x * 2^k for k >= 0, x \div 2^(-k) for k < 0
Shifted(x, k) ==
    IF k >= 0 THEN ShiftedLeft(x, k \div 16, k % 16)
    ELSE ShiftedRight(x, (0 - k) \div 16, (0 - k) % 16)

RECURSIVE ZerosFrom(_, _)
ZerosFrom(x, k) == IF Bit(x, k) = 1 THEN k ELSE ZerosFrom(x, k + 1)

\* the number of trailing zero bits of x # 0
TrailingZeros(x) == ZerosFrom(x, 0)

RECURSIVE RemAt(_, _, _)
RemAt(x, c, i) ==
    IF i > NumLimbs THEN 0 ELSE (RemAt(x, c, i + 1) * Base + x[i]) % c

\* x \div c for a divisor 0 < c <= 32768
DivSmall(x, c) ==
    [i \in 1..NumLimbs |-> (RemAt(x, c, i + 1) * Base + x[i]) \div c]

NaNDouble == [kind |-> "nan", neg |-> FALSE, man |-> Zero, exp |-> 0]

UndefinedDouble == [kind |-> "undefined", neg |-> FALSE, man |-> Zero, exp |-> 0]

Double(neg, man, exp) ==
    IF man = Zero THEN [kind |-> "num", neg |-> FALSE, man |-> Zero, exp |-> 0]
    ELSE [kind |-> "num", neg |-> neg,
          man |-> Shifted(man, 0 - TrailingZeros(man)),
          exp |-> exp + TrailingZeros(man)]

\* the double nearest to x * 2^exp
Rounded(neg, x, exp) == Double(neg, RoundDouble(x), exp)

FromInt(n) == Double(n < 0, Word(0, IF n < 0 THEN 0 - n ELSE n), 0)

\* a * b
DoubleTimes(a, b) ==
    IF a.kind # "num" \/ b.kind # "num" THEN NaNDouble
    ELSE Rounded(a.neg # b.neg, Mul(a.man, b.man), a.exp + b.exp)

\* the position above the leading bit
Top(a) == a.exp + BitLen(a.man)

\* b when it reaches within 56 bits below the leading bit of a; otherwise a
\* single bit below every bit that the rounding of a + b looks at
Sticky(a, b) ==
    IF Top(b) >= Top(a) - 56 THEN b
    ELSE [kind |-> "num", neg |-> b.neg, man |-> Word(0, 1), exp |-> Top(a) - 58]

SumAt(aneg, x, bneg, y, e) ==
    IF aneg = bneg THEN Rounded(aneg, Add(x, y), e)
    ELSE IF Less(x, y) THEN Rounded(bneg, Sub(y, x), e)
    ELSE Rounded(aneg, Sub(x, y), e)

Aligned(a, b, e) == SumAt(a.neg, Shifted(a.man, a.exp - e), b.neg, Shifted(b.man, b.exp - e), e)

MinOf(m, n) == IF m < n THEN m ELSE n

SumOrdered(a, b) == Aligned(a, b, MinOf(a.exp, b.exp))

\* a + b
DoublePlus(a, b) ==
    IF a.kind # "num" \/ b.kind # "num" THEN NaNDouble
    ELSE IF a.man = Zero THEN b
    ELSE IF b.man = Zero THEN a
    ELSE IF Top(a) >= Top(b) THEN SumOrdered(a, Sticky(a, b))
    ELSE SumOrdered(b, Sticky(b, a))

Negative(b) == IF b.kind = "num" THEN Double(~b.neg, b.man, b.exp) ELSE b

\* a - b
DoubleMinus(a, b) == DoublePlus(a, Negative(b))

\* twice the quotient, with a last bit that tells whether a remainder is left
QuotientAt(neg, x, c, e) ==
    Rounded(neg,
            Add(Add(DivSmall(x, c), DivSmall(x, c)),
                Word(0, IF RemAt(x, c, 1) = 0 THEN 0 ELSE 1)),
            e - 1)

\* a / c for an integer 0 < c <= 32768
DoubleOverInt(a, c) ==
    IF a.kind # "num" THEN NaNDouble
    ELSE IF a.man = Zero THEN a
    ELSE QuotientAt(a.neg, Shifted(a.man, 110 - BitLen(a.man)), c,
                    a.exp - (110 - BitLen(a.man)))

\* the integer part of |a| (below 65536) and whether a fraction is left
IntPart(a) == Shifted(a.man, a.exp)[1]

HasFraction(a) == a.man # Zero /\ a.exp < 0

\* Math.floor, Math.ceil
MathFloor(a) ==
    IF a.neg THEN 0 - (IntPart(a) + (IF HasFraction(a) THEN 1 ELSE 0)) ELSE IntPart(a)

MathCeil(a) ==
    IF a.neg THEN 0 - IntPart(a) ELSE IntPart(a) + (IF HasFraction(a) THEN 1 ELSE 0)

\* a < b, a <= b
DoubleLess(a, b) ==
    IF a.neg # b.neg THEN a.neg
    ELSE IF a.man = Zero THEN b.man # Zero
    ELSE IF b.man = Zero THEN FALSE
    ELSE IF Top(a) # Top(b) THEN (Top(a) < Top(b)) # a.neg
    ELSE DoubleMinus(a, b).neg

DoubleLeq(a, b) == a.kind = "num" /\ b.kind = "num" /\ ~DoubleLess(b, a)

-----------------------------------------------------------------------------
(* class SeededRandom *)

\* 1664525 = 25 * 65536 + 26125
Multiplier(x) == Add(MulSmall(x, 26125), ShiftLimb(MulSmall(x, 25)))

\* 1013904223 = 15470 * 65536 + 62303
Increment == Word(15470, 62303)

\* this.seed * 1664525, a double product
JsTimesMultiplier(s) == Num(s.neg, RoundDouble(Multiplier(s.mag)))

\* p + 1013904223, a double sum
JsPlusIncrement(p) ==
    IF ~p.neg THEN Num(FALSE, RoundDouble(Add(p.mag, Increment)))
    ELSE IF Less(p.mag, Increment) THEN Num(FALSE, Sub(Increment, p.mag))
    ELSE Num(TRUE, RoundDouble(Sub(p.mag, Increment)))

\* x % 4294967296: the remainder takes the sign of the dividend
JsMod32(x) == Num(x.neg, [i \in 1..NumLimbs |-> IF i <= 2 THEN x.mag[i] ELSE 0])

NextSeed(s) == JsMod32(JsPlusIncrement(JsTimesMultiplier(s)))

\* new SeededRandom(seed)
NewRng(seed) == [seed |-> seed, draws |-> 0]

\* random(): the object after the call, and the value returned, this.seed / 2^32,
\* carried as its numerator
Stepped(g, s) == [rng |-> [seed |-> s, draws |-> g.draws + 1], val |-> s]

random(g) == Stepped(g, NextSeed(g.seed))

\* Math.floor(this.random() * (max - min + 1)) + min.  The product of a draw
\* (32 significant bits) and a small span is exact.
FloorOf(p, neg) ==
    IF ~neg THEN p[3] + Base * p[4]
    ELSE IF p[1] = 0 /\ p[2] = 0 THEN 0 - (p[3] + Base * p[4])
    ELSE 0 - (p[3] + Base * p[4] + 1)

FloorTimes(r, span) ==
    FloorOf(MulSmall(r.mag, IF span < 0 THEN 0 - span ELSE span),
            (r.neg # (span < 0)) /\ r.mag # Zero /\ span # 0)

FlooredInto(d, min, max) ==
    [rng |-> d.rng, val |-> FloorTimes(d.val, max - min + 1) + min]

randInt(g, min, max) == FlooredInto(random(g), min, max)

-----------------------------------------------------------------------------
(* Values computed from draws.  A multiple is carried exactly, as a signed  *)
(* integer count of units of 1 / (10 * 2^32): base + u * width with base    *)
(* and width given in tenths and u a draw.  (The double rounding of the     *)
(* sums whose constants are not dyadic, such as 0.8 + u * 0.4, is below     *)
(* one unit and is not modelled.)                                           *)

SignedAdd(a, b) ==
    IF a.neg = b.neg THEN Num(a.neg, Add(a.mag, b.mag))
    ELSE IF Less(a.mag, b.mag) THEN Num(b.neg, Sub(b.mag, a.mag))
    ELSE Num(a.neg, Sub(a.mag, b.mag))

Scale(x, c) == Num(x.neg, MulSmall(x.mag, c))

\* t / 10 in units: t * 2^32
Tenths(t) == Num(FALSE, ShiftLimb(ShiftLimb(Word(0, t))))

\* a < b
NumLess(a, b) ==
    IF a.neg /\ ~b.neg THEN TRUE
    ELSE IF ~a.neg /\ b.neg THEN FALSE
    ELSE IF a.neg THEN Less(b.mag, a.mag)
    ELSE Less(a.mag, b.mag)

\* base + u * width
Affine(base, width, u) == SignedAdd(Tenths(base), Scale(u, width))

\* r < t for a draw r and a double literal t, given as ceil(t * 2^32)
Below(r, t) == r.neg \/ Less(r.mag, t)

\* The double literals of the band tables, each as ceil(literal * 2^32).
D070 == Word(45875, 13108)
D085 == Word(55705, 39322)
D092 == Word(60293, 7865)
D097 == Word(63569, 60294)
D099 == Word(64880, 41944)
C050 == Word(32768, 0)
C077 == Word(50462, 47186)
C089 == Word(58327, 2622)
C095 == Word(62259, 13108)
C0985 == Word(64552, 62915)
C0995 == Word(65208, 20972)

\* a sampler's result: the generator after the call and the value returned
Drawn(g, v) == [rng |-> g, val |-> v]

Banded(d, base, width) == Drawn(d.rng, Affine(base, width, d.val))

\* return base + rng.random() * width
ReturnBand(g, base, width) == Banded(random(g), base, width)

HoistedBranches(r, e) ==
    IF Below(r, D070) THEN Drawn(e.rng, Tenths(0))
    ELSE IF Below(r, D085) THEN Drawn(e.rng, Affine(5, 15, e.val))
    ELSE IF Below(r, D092) THEN Drawn(e.rng, Affine(20, 30, e.val))
    ELSE IF Below(r, D097) THEN Drawn(e.rng, Affine(50, 50, e.val))
    ELSE IF Below(r, D099) THEN Drawn(e.rng, Affine(100, 100, e.val))
    ELSE Drawn(e.rng, Affine(200, 300, e.val))

HoistedDraws(d) == HoistedBranches(d.val, random(d.rng))

\* sampleDiscoveryOnlyMultiple with u drawn ahead of the branches
sampleDiscoveryOnlyMultipleHoisted(g) == HoistedDraws(random(g))

\* lines 43-56: the branches on r, d being the draw of line 42
DiscoveryBranches(d) ==
    IF Below(d.val, D070) THEN Drawn(d.rng, Tenths(0))
    ELSE IF Below(d.val, D085) THEN ReturnBand(d.rng, 5, 15)
    ELSE IF Below(d.val, D092) THEN ReturnBand(d.rng, 20, 30)
    ELSE IF Below(d.val, D097) THEN ReturnBand(d.rng, 50, 50)
    ELSE IF Below(d.val, D099) THEN ReturnBand(d.rng, 100, 100)
    ELSE ReturnBand(d.rng, 200, 300)

sampleDiscoveryOnlyMultiple(g) == DiscoveryBranches(random(g))

\* lines 75-89: the branches after the first
ConvictionUpperBranches(d) ==
    IF Below(d.val, C077) THEN ReturnBand(d.rng, 8, 4)
    ELSE IF Below(d.val, C089) THEN ReturnBand(d.rng, 25, 15)
    ELSE IF Below(d.val, C095) THEN ReturnBand(d.rng, 50, 50)
    ELSE IF Below(d.val, C0985) THEN ReturnBand(d.rng, 150, 100)
    ELSE IF Below(d.val, C0995) THEN ReturnBand(d.rng, 300, 200)
    ELSE ReturnBand(d.rng, 750, 750)

ConvictionBranchesLe(d) ==
    IF d.val.neg \/ ~Less(C050, d.val.mag) THEN Drawn(d.rng, Tenths(0))
    ELSE ConvictionUpperBranches(d)

\* sampleConvictionMultiple with the first comparison written r <= 0.50
sampleConvictionMultipleLe(g) == ConvictionBranchesLe(random(g))

\* lines 74-89: the branches on r, d being the draw of line 73
ConvictionBranches(d) ==
    IF Below(d.val, C050) THEN Drawn(d.rng, Tenths(0))
    ELSE ConvictionUpperBranches(d)

sampleConvictionMultiple(g) == ConvictionBranches(random(g))

-----------------------------------------------------------------------------
(* Transcendental functions.  Math.log, Math.sqrt and Math.cos are carried  *)
(* on a grid, in thousandths; what is exact is where they leave the finite  *)
(* numbers: log of 0 is -Infinity, log of a negative number is NaN.         *)

Finite(v) == [kind |-> "num", v |-> v]
NaN == [kind |-> "nan", v |-> 0]
PlusInf == [kind |-> "inf", v |-> 0]
MinusInf == [kind |-> "ninf", v |-> 0]

\* Math.sqrt(-2 * Math.log(u1)), by the top three bits of u1
SqrtGrid == <<2355, 1830, 1525, 1286, 1073, 866, 644, 359>>

\* Math.cos(2 * Math.PI * u2), by the top three bits of |u2|
CosGrid == <<924, 383, -383, -924, -924, -383, 383, 924>>

Octant(u) == (u.mag[2] \div 8192) + 1

\* z0 * stdDev + mean for mean = 0, stdDev = 1
BoxMuller(u1, u2) ==
    IF u1.neg THEN NaN
    ELSE IF u1.mag = Zero
         THEN (IF CosGrid[Octant(u2)] > 0 THEN PlusInf ELSE MinusInf)
    ELSE Finite((SqrtGrid[Octant(u1)] * CosGrid[Octant(u2)]) \div 1000)

SecondOf(d1, d2) == Drawn(d2.rng, BoxMuller(d1.val, d2.val))

SecondAfter(d1) == SecondOf(d1, random(d1.rng))

Redrawn(d0) ==
    IF d0.val.neg \/ d0.val.mag = Zero THEN SecondAfter(random(d0.rng))
    ELSE SecondAfter(d0)

\* gaussian drawing u1 again until it is positive
gaussianRedraw(g) == Redrawn(random(g))

gaussian(g) == SecondAfter(random(g))

\* Math.log(x) for x > 0 given in whole tenths t >= 1:
\* ln 2 * (e + (t - 2^e) / 2^e) - ln 10 with e = floor(log2 t)
LogTenths(t) ==
    LET e == CHOOSE k \in 0..15 : Pow2(k) <= t /\ t < Pow2(k + 1)
    IN  693 * e + (693 * (t - Pow2(e))) \div Pow2(e) - 2303

\* Math.log(outcome + 0.1)
LogOf(x) ==
    IF x.neg THEN NaN
    ELSE IF x.mag = Zero THEN MinusInf
    ELSE IF x.mag[3] + Base * x.mag[4] = 0 THEN Finite(-3000)
    ELSE Finite(LogTenths(x.mag[3] + Base * x.mag[4]))

LogSignal(outcome) == LogOf(SignedAdd(outcome, Tenths(1)))

\* a + b on doubles
FloatAdd(a, b) ==
    IF a.kind = "nan" \/ b.kind = "nan" THEN NaN
    ELSE IF a.kind = "num" /\ b.kind = "num" THEN Finite(a.v + b.v)
    ELSE IF a.kind = "num" THEN b
    ELSE IF b.kind = "num" THEN a
    ELSE IF a.kind = b.kind THEN a
    ELSE NaN


-----------------------------------------------------------------------------
(* simulateFundOnce.  Rates are whole percents and money is whole units, so  *)
(* the products and quotients of the source are exact rationals here; the    *)
(* parameter values of FundParamsSet are chosen so that no product or        *)
(* quotient of rates falls where double rounding would change a floor or a   *)
(* round.                                                                    *)

\* Math.round(x) for x = n / d, d > 0: halves round up
RoundRatio(n, d) == (2 * n + d) \div (2 * d)

\* fees of the years 1..fundLife, in units of 1/10000
TotalFees(p) ==
    LET full == IF p.fundLife < 0 THEN 0
                ELSE IF p.mgmtFeeFullYears < 0 THEN 0
                ELSE IF p.mgmtFeeFullYears < p.fundLife THEN p.mgmtFeeFullYears
                ELSE p.fundLife
        rest == (IF p.fundLife < 0 THEN 0 ELSE p.fundLife) - full
    IN  full * (100 * p.mgmtFeeRate * p.fundSize)
          + rest * (p.mgmtFeeStepdown * p.mgmtFeeRate * p.fundSize)

\* deployableCapital, in units of 1/10000
DeployableCapital(p) ==
    (10000 * p.fundSize - TotalFees(p)) - 100 * (p.fundSize * p.followOnReservePercent)

NumDiscovery(p) == p.maxDiscoveryChecks

NumConviction(p) == RoundRatio(NumDiscovery(p) * p.graduationRate, 100)

EarlyStageTotal(p) ==
    NumDiscovery(p) * p.discoveryCheckSize + NumConviction(p) * p.convictionCheckSize

\* earlyStageTotal > deployableCapital: console.warn is called
CapitalConstraintHit(p) == 10000 * EarlyStageTotal(p) > DeployableCapital(p)

\* Math.floor(followOnReserve / avgFollowOnCheck): 0 / 0 is NaN and x / 0 is
\* an infinity
ReserveOverAvgCheck(p) ==
    LET reserve == p.fundSize * p.followOnReservePercent
        avg     == 50 * p.convictionCheckSize
    IN  IF avg = 0
        THEN (IF reserve = 0 THEN NaN ELSE IF reserve > 0 THEN PlusInf ELSE MinusInf)
        ELSE IF avg > 0 THEN Finite(reserve \div avg)
        ELSE Finite((0 - reserve) \div (0 - avg))

\* Math.min(a, b) for a double a and an integer b
MathMin(a, b) ==
    IF a.kind = "nan" THEN NaN
    ELSE IF a.kind = "inf" THEN Finite(b)
    ELSE IF a.kind = "ninf" THEN MinusInf
    ELSE Finite(IF a.v < b THEN a.v ELSE b)

NumFollowOn(p) == MathMin(ReserveOverAvgCheck(p), RoundRatio(4 * NumConviction(p), 10))

\* items.slice(0, end) for an integer end
SliceTo(items, end) ==
    LET n == Len(items)
        e == IF end < 0 THEN (IF n + end < 0 THEN 0 ELSE n + end)
             ELSE IF end > n THEN n ELSE end
    IN  SubSeq(items, 1, e)

\* items.slice(0, end) for a double end: NaN counts as 0
SliceToFloat(items, end) ==
    IF end.kind = "nan" THEN <<>>
    ELSE IF end.kind = "inf" THEN items
    ELSE IF end.kind = "ninf" THEN <<>>
    ELSE SliceTo(items, end.v)

\* the sign of b - a for two doubles, NaN read as 0 as Array.prototype.sort
\* reads a comparator's result
SignOfDifference(b, a) ==
    IF a.kind = "nan" \/ b.kind = "nan" THEN 0
    ELSE IF a.kind = b.kind
         THEN (IF a.kind # "num" THEN 0
               ELSE IF b.v > a.v THEN 1 ELSE IF b.v < a.v THEN -1 ELSE 0)
    ELSE IF b.kind = "inf" \/ a.kind = "ninf" THEN 1
    ELSE -1

\* (a, b) => b.signal - a.signal
BySignal(a, b) == SignOfDifference(b.signal, a.signal)

\* the comparator of convictionByOutcome: the sign of b.outcome - a.outcome
ByOutcome(a, b) ==
    IF NumLess(a.outcome, b.outcome) THEN 1
    ELSE IF NumLess(b.outcome, a.outcome) THEN -1 ELSE 0

\* the comparator of calculateSummary: the sign of a - b
Ascending(a, b) ==
    IF DoubleMinus(a, b).man = Zero THEN 0 ELSE IF DoubleMinus(a, b).neg THEN -1 ELSE 1

\* Array.prototype.sort: a stable sort, here by insertion.  cmp is "signal",
\* "outcome" or "ascending".
Compare(cmp, a, b) ==
    IF cmp = "signal" THEN BySignal(a, b)
    ELSE IF cmp = "ascending" THEN Ascending(a, b)
    ELSE ByOutcome(a, b)

\* a sort that puts an item ahead of the items it compares equal to
RECURSIVE InsertSortedUnstable(_, _, _)
InsertSortedUnstable(cmp, sorted, x) ==
    IF sorted = <<>> THEN <<x>>
    ELSE LET last == sorted[Len(sorted)]
         IN  IF Compare(cmp, last, x) >= 0
             THEN Append(InsertSortedUnstable(cmp, SubSeq(sorted, 1, Len(sorted) - 1), x),
                         last)
             ELSE Append(sorted, x)

RECURSIVE InsertSorted(_, _, _)
InsertSorted(cmp, sorted, x) ==
    IF sorted = <<>> THEN <<x>>
    ELSE LET last == sorted[Len(sorted)]
         IN  IF Compare(cmp, last, x) > 0
             THEN Append(InsertSorted(cmp, SubSeq(sorted, 1, Len(sorted) - 1), x), last)
             ELSE Append(sorted, x)

RECURSIVE SortFrom(_, _, _, _)
SortFrom(cmp, items, k, sorted) ==
    IF k > Len(items) THEN sorted
    ELSE SortFrom(cmp, items, k + 1, InsertSorted(cmp, sorted, items[k]))

Sort(cmp, items) == SortFrom(cmp, items, 1, <<>>)

\* convictionIndices, in the Set's insertion order; indices count from 0
ConvictionIndices(p, tractionSignals) ==
    LET indexed == [k \in 1..Len(tractionSignals) |->
                       [signal |-> tractionSignals[k], idx |-> k - 1]]
        top     == SliceTo(Sort("signal", indexed), NumConviction(p))
    IN  [k \in 1..Len(top) |-> top[k].idx]

\* followOnIndices as a set, from the conviction indices and their outcomes
FollowOnIndices(p, convictionIndices, convictionOutcomes) ==
    LET pairs == [k \in 1..Len(convictionIndices) |->
                     [idx |-> convictionIndices[k], outcome |-> convictionOutcomes[k]]]
        top   == SliceToFloat(Sort("outcome", pairs), NumFollowOn(p))
    IN  {top[k].idx : k \in 1..Len(top)}

\* numFollowOn > 0
HasFollowOn(p) ==
    LET n == NumFollowOn(p)
    IN  n.kind = "num" /\ n.v > 0

\* Money of one run is carried in units of 1 / (Den * 10 * 2^32) with
\* Den = 300 * numFollowOn (300 without follow-on), which makes
\* followOnCheckSize * outcome / 3 a whole number of units.
Den(p) == IF HasFollowOn(p) THEN 300 * NumFollowOn(p).v ELSE 300

\* x * k for a signed integer k
ScaleInt(x, k) == Num(x.neg # (k < 0), Times(x.mag, IF k < 0 THEN 0 - k ELSE k))

\* the whole amount k, in units
Whole(p, k) == ScaleInt(Tenths(10), k * Den(p))

\* an entry of the cashFlows array: a number, NaN, or a hole (an index never
\* written); an index outside the array and a hole read undefined, and
\* undefined plus or minus a number is NaN
Amount(x) == [kind |-> "num", amt |-> x]
NotANumber == [kind |-> "nan", amt |-> Small(0)]
Hole == [kind |-> "hole", amt |-> Small(0)]

\* cashFlows[k] += x (k counts from 0); writing past the end lengthens the
\* array and leaves holes
PlusAt(cf, k, x) ==
    LET len == Len(cf)
        new == IF k + 1 <= len /\ cf[k + 1].kind = "num"
               THEN Amount(SignedAdd(cf[k + 1].amt, x))
               ELSE NotANumber
    IN  [j \in 1..(IF k + 1 > len THEN k + 1 ELSE len) |->
            IF j = k + 1 THEN new ELSE IF j <= len THEN cf[j] ELSE Hole]

Negated(x) == Num(~x.neg, x.mag)

\* the outflows with the early-stage checks cut down to the deployable
\* capital (in whole units) when they exceed it
OutflowsScaled(p) ==
    LET cf0 == [j \in 1..(p.fundLife + 1) |-> Amount(Small(0))]
        early == IF CapitalConstraintHit(p) THEN DeployableCapital(p) \div 10000
                 ELSE EarlyStageTotal(p)
        cf1 == PlusAt(cf0, 1, Negated(Whole(p, early)))
        half == Negated(ScaleInt(Tenths(5),
                    (p.fundSize * p.followOnReservePercent * Den(p)) \div 100))
    IN  IF HasFollowOn(p) THEN PlusAt(PlusAt(cf1, 2, half), 3, half) ELSE cf1

\* new Array(fundLife + 1).fill(0) and the outflows of the years 1 to 3
Outflows(p) ==
    LET cf0 == [j \in 1..(p.fundLife + 1) |-> Amount(Small(0))]
        cf1 == PlusAt(cf0, 1, Negated(Whole(p, NumDiscovery(p) * p.discoveryCheckSize)))
        cf2 == PlusAt(cf1, 1, Negated(Whole(p, NumConviction(p) * p.convictionCheckSize)))
        \* followOnReserve * 0.5 = fundSize * followOnReservePercent / 200
        half == Negated(ScaleInt(Tenths(5),
                    (p.fundSize * p.followOnReservePercent * Den(p)) \div 100))
    IN  IF HasFollowOn(p) THEN PlusAt(PlusAt(cf2, 2, half), 3, half) ELSE cf2

\* the distribution of company i with the given outcome
Distribution(p, i, outcome, isConviction, isFollowOn) ==
    IF ~isConviction THEN ScaleInt(outcome, p.discoveryCheckSize * Den(p))
    ELSE LET invested == p.discoveryCheckSize + p.convictionCheckSize
             \* followOnCheckSize * Math.max(outcome / 3, 0), times Den
             extra    == IF isFollowOn /\ HasFollowOn(p) /\ ~outcome.neg
                         THEN p.fundSize * p.followOnReservePercent ELSE 0
         IN  SignedAdd(ScaleInt(outcome, invested * Den(p)), ScaleInt(outcome, extra))

\* -cashFlows.filter(cf => cf < 0).reduce((a, b) => a + b, 0)
RECURSIVE SumNegative(_, _)
SumNegative(cf, k) ==
    IF k > Len(cf) THEN Small(0)
    ELSE LET rest == SumNegative(cf, k + 1)
         IN  IF cf[k].kind = "num" /\ cf[k].amt.neg
             THEN SignedAdd(cf[k].amt, rest) ELSE rest

\* the sum of the entries that are numbers
RECURSIVE SumAll(_, _)
SumAll(cf, k) ==
    IF k > Len(cf) THEN Small(0)
    ELSE IF cf[k].kind = "num" THEN SignedAdd(cf[k].amt, SumAll(cf, k + 1))
    ELSE SumAll(cf, k + 1)

\* the sum without the filter
TotalCalledUnfiltered(cf) == Negated(SumAll(cf, 1))

TotalCalled(cf) == Negated(SumNegative(cf, 1))

\* line 307: profit = totalDistGross - totalCalled
Profit(gross, called) == SignedAdd(gross, Negated(called))

\* Math.max(x, 0)
MathMax0(x) == IF x.neg THEN Small(0) ELSE x

\* carry charged on the profit whatever its sign
CarryPaidOnLoss(p, gross, called) == ScaleInt(Profit(gross, called), p.carry)

\* line 308: carryPaid = Math.max(profit, 0) * carry, in hundredths of a
\* unit (carry is a whole percent)
CarryPaid(p, gross, called) == ScaleInt(MathMax0(Profit(gross, called)), p.carry)

\* line 309: totalDistNet = totalDistGross - carryPaid, in hundredths of a unit
TotalDistNet(p, gross, called) ==
    SignedAdd(ScaleInt(gross, 100), Negated(CarryPaid(p, gross, called)))

\* x / totalCalled on doubles, x in hundredths of a unit: a fraction, or what
\* a division by zero gives.  A totalCalled of zero is -0, the negation of
\* the empty sum 0, so a positive x gives -Infinity.
Ratio(n, d) == [kind |-> "num", num |-> n, den |-> d]
NaNRatio == [kind |-> "nan", num |-> Small(0), den |-> Small(0)]
InfRatio == [kind |-> "inf", num |-> Small(0), den |-> Small(0)]
MinusInfRatio == [kind |-> "ninf", num |-> Small(0), den |-> Small(0)]

OverCalled(x, called) ==
    IF called.mag # Zero THEN Ratio(x, ScaleInt(called, 100))
    ELSE IF x.mag = Zero THEN NaNRatio
    ELSE IF x.neg THEN InfRatio ELSE MinusInfRatio

\* line 303
GrossTvpi(gross, called) == OverCalled(ScaleInt(gross, 100), called)

\* line 310
NetTvpi(p, gross, called) == OverCalled(TotalDistNet(p, gross, called), called)

\* lines 314-315: [...cashFlows] with cashFlowsNet[fundLife] -= carryPaid, in
\* hundredths of a unit
Hundredfold(cf) ==
    [j \in 1..Len(cf) |->
        IF cf[j].kind = "num" THEN Amount(ScaleInt(cf[j].amt, 100)) ELSE NotANumber]

CashFlowsNet(p, cf, carryPaid) == PlusAt(Hundredfold(cf), p.fundLife, Negated(carryPaid))

\* A rate in thousandths; the value calculateIRR computes from a series that
\* is neither all zero nor holds a NaN is not evaluated, and is carried as
\* the series it is computed from.
Rate(v) == [kind |-> "rate", v |-> v, of |-> <<>>]
Solved(cf) == [kind |-> "solved", v |-> 0, of |-> cf]

\* The amounts of a parameter record (fundSize and the two check sizes) are in
\* units of 10^(-6 * micro) dollars: micro = 0 for dollars, 2 for
\* million-millionths of a dollar.
RECURSIVE MillionTimes(_, _)
MillionTimes(x, micro) ==
    IF micro <= 0 THEN x ELSE MillionTimes(Times(x, 1000000), micro - 1)

\* what one dollar is in the units of a cashFlowsNet entry
Dollar(p) == MillionTimes(ScaleInt(Tenths(10), 100 * Den(p)).mag, p.micro)

RECURSIVE SumAbs(_, _)
SumAbs(cf, k) == IF k > Len(cf) THEN Zero ELSE Add(cf[k].amt.mag, SumAbs(cf, k + 1))

\* the flows add up to less than the tolerance 1e-6 in absolute value, so
\* |npv| < 1e-6 at the first guess, whose discount factors are all >= 1
BelowTolerance(cf, dollar) == Less(Times(SumAbs(cf, 1), 1000000), dollar)

\* calculateIRR(cashFlows) with isNaN(irrNet) ? 0 : irrNet applied; dollar is
\* the size of one dollar in the units of the flows.  With a NaN flow every
\* comparison of Newton's loop and of the bisection is false, low climbs to
\* high and (low + high) / 2 = 5 is returned (line 169).  With flows below the
\* tolerance (all 0, say) the first npv passes the test of line 113 and the
\* guess 0.1 is returned.  Newton's loop and the bisection themselves are
\* modelled further down, as steps.
calculateIRR(cf, dollar) ==
    IF \E j \in 1..Len(cf) : cf[j].kind # "num" THEN Rate(5000)
    ELSE IF BelowTolerance(cf, dollar) THEN Rate(100)
    ELSE Solved(cf)

-----------------------------------------------------------------------------
(* runMonteCarloSimulation and the steps of simulateFundOnce *)

MaxRuns == 2

Limbs4(a, b, c, d) ==
    [i \in 1..NumLimbs |->
        IF i = 1 THEN a ELSE IF i = 2 THEN b ELSE IF i = 3 THEN c
        ELSE IF i = 4 THEN d ELSE 0]

NoRun == [stage |-> "none"]
NoCall == [calls |-> 0, last |-> "none", prior |-> "none", at |-> "none", priorAt |-> "none"]
NoClock == [now |-> Small(0), read |-> FALSE]
NoDb == [valuation_updates |-> <<>>, investments |-> "none"]

FundParams(life, size, fee, full, stepdown, carry, dcs, checks, ccs, grad, reserve) ==
    [ fundLife |-> life, fundSize |-> size, mgmtFeeRate |-> fee,
      mgmtFeeFullYears |-> full, mgmtFeeStepdown |-> stepdown, carry |-> carry,
      discoveryCheckSize |-> dcs, maxDiscoveryChecks |-> checks,
      convictionCheckSize |-> ccs, graduationRate |-> grad,
      followOnReservePercent |-> reserve, micro |-> 0 ]

\* The parameter records of the model.  Valid ones: the host's defaults
\* scaled down (three discovery checks, half of them graduating, one
\* follow-on); a four-year fund without carry and without reserve whose
\* graduation count is a half rounded up; a fund whose conviction check and
\* reserve are both 0; a one-year fund; a fund that writes no check; a fund
\* whose checks exceed its deployable capital; a fund without carry that
\* writes no check; a two-year fund with one follow-on.  Invalid ones: a fund
\* life of -2; a negative fund size.
FundParamsSet ==
    { FundParams(10, 250, 2, 4, 70, 20, 1, 3, 4, 50, 20),
      FundParams(4, 100, 2, 4, 70, 0, 1, 2, 4, 25, 0),
      FundParams(10, 100, 2, 4, 70, 20, 1, 2, 0, 50, 0),
      FundParams(1, 100, 2, 1, 70, 20, 1, 1, 4, 100, 20),
      FundParams(10, 100, 2, 4, 70, 20, 1, 0, 4, 25, 20),
      FundParams(5, 10, 2, 4, 70, 20, 2, 2, 4, 100, 50),
      FundParams(10, 100, 2, 4, 70, 0, 1, 0, 4, 25, 0),
      FundParams(2, 100, 2, 1, 70, 20, 1, 2, 4, 100, 20),
      FundParams(-2, 100, 2, 4, 70, 20, 1, 1, 4, 100, 0),
      FundParams(10, -100, 2, 4, 70, 20, 1, 2, 4, 50, 20) }

\* the seed argument: undefined, or a number
Undefined == [defined |-> FALSE, num |-> Small(0)]
Given(x) == [defined |-> TRUE, num |-> x]

\* 19 is a seed whose first companies get equal traction signals on the grid
\* of the transcendental functions
SeedArgs ==
    { Undefined, Given(Small(0)), Given(Small(1)), Given(Small(19)), Given(Small(42)),
      Given(Small(-1)), Given(Num(FALSE, Word(65535, 65535))) }

\* two readings of Date.now()
ClockReadings ==
    { Num(FALSE, Limbs4(53248, 19497, 410, 0)), Num(FALSE, Limbs4(53977, 19497, 410, 0)) }

\* seed || Date.now()
SeedOrNowFalsy(seed, now) ==
    IF seed.defined /\ seed.num # Small(0) THEN [seed |-> seed.num, read |-> FALSE]
    ELSE [seed |-> now, read |-> TRUE]

\* Date.now(), whatever the seed
SeedIgnored(seed, now) == [seed |-> now, read |-> TRUE]

\* seed ?? Date.now(): the seed handed to the constructor, and whether
\* Date.now() was called
SeedOrNow(seed, now) ==
    IF seed.defined THEN [seed |-> seed.num, read |-> FALSE]
    ELSE [seed |-> now, read |-> TRUE]

Init ==
    /\ pc = "idle"
    /\ args \in [params : FundParamsSet, n : 0..MaxRuns, seed : SeedArgs]
    /\ rng = NewRng(Small(0))
    /\ simulations = <<>>
    /\ run = NoRun
    /\ returned = NoCall
    /\ clock = NoClock
    /\ db = NoDb
    /\ requests = <<>>
    /\ probe = [op |-> "none", before |-> rng, val |-> 0]

\* lines 364-371: the call is made, at some reading of the clock
Call ==
    /\ pc = "idle"
    /\ \E now \in ClockReadings :
          LET s == SeedOrNow(args.seed, now)
          IN  /\ rng' = NewRng(s.seed)
              /\ clock' = [now |-> now, read |-> s.read]
    /\ simulations' = <<>>
    /\ pc' = "loop"
    /\ UNCHANGED <<args, run, returned, probe, db, requests>>

\* the seed the constructor was called with
SeedUsed == IF args.seed.defined THEN args.seed.num ELSE clock.now

\* a generator constructed for the run
FreshRng(g, seed) == NewRng(seed)

\* simulateFundOnce(params, rng): the run works on the driver's generator
\* object itself
SharedRng(g, seed) == g

\* lines 373-374 and 176-213: the loop calls simulateFundOnce(params, rng)
EnterRun ==
    /\ pc = "loop"
    /\ Len(simulations) < args.n
    /\ rng' = SharedRng(rng, SeedUsed)
    /\ run' = [ stage |-> "discover", start |-> rng', i |-> 0,
                warned |-> CapitalConstraintHit(args.params),
                discoveryOutcomes |-> <<>>, tractionSignals |-> <<>>,
                convictionIndices |-> <<>>, convictionOutcomes |-> <<>>,
                followOnIndices |-> {}, cashFlows |-> <<>>,
                exitYears |-> <<>>,
                totalDistGross |-> Small(0) ]
    /\ pc' = "run"
    /\ UNCHANGED <<args, simulations, returned, clock, probe, db, requests>>

\* lines 215-223: one pass of the outcome loop
Signalled(r, o, z) ==
    [r EXCEPT !.i = @ + 1,
              !.discoveryOutcomes = Append(@, o.val),
              !.tractionSignals = Append(@, FloatAdd(LogSignal(o.val), z.val))]

Discovered(o, z) ==
    /\ rng' = z.rng
    /\ run' = Signalled(run, o, z)

DiscoveredThen(o) == Discovered(o, gaussian(o.rng))

DiscoverStep ==
    /\ pc = "run" /\ run.stage = "discover"
    /\ run.i < NumDiscovery(args.params)
    /\ DiscoveredThen(sampleDiscoveryOnlyMultiple(rng))
    /\ UNCHANGED <<pc, args, simulations, returned, clock, probe, db, requests>>

\* lines 226-228: the outcome loop is over; rank and select
SelectConviction ==
    /\ pc = "run" /\ run.stage = "discover"
    /\ run.i >= NumDiscovery(args.params)
    /\ run' = [run EXCEPT
           !.stage = "convict", !.i = 0,
           !.convictionIndices = ConvictionIndices(args.params, run.tractionSignals)]
    /\ UNCHANGED <<pc, args, rng, simulations, returned, clock, probe, db, requests>>

\* lines 233-235: one pass of the re-draw loop over the conviction set
Convicted(o) ==
    /\ rng' = o.rng
    /\ run' = [run EXCEPT !.i = @ + 1,
                          !.convictionOutcomes = Append(@, o.val)]

ConvictStep ==
    /\ pc = "run" /\ run.stage = "convict"
    /\ run.i < Len(run.convictionIndices)
    /\ Convicted(sampleConvictionMultiple(rng))
    /\ UNCHANGED <<pc, args, simulations, returned, clock, probe, db, requests>>

\* lines 239-267: follow-on selection and the outflows.  new Array(n) throws a
\* RangeError for n < 0.
PlanFollowOn ==
    /\ pc = "run" /\ run.stage = "convict"
    /\ run.i >= Len(run.convictionIndices)
    /\ IF args.params.fundLife + 1 < 0
       THEN /\ pc' = "threw"
            /\ run' = [run EXCEPT !.stage = "threw"]
       ELSE /\ pc' = pc
            /\ run' = [run EXCEPT
                   !.stage = "exit", !.i = 0,
                   !.followOnIndices = FollowOnIndices(args.params,
                                           run.convictionIndices, run.convictionOutcomes),
                   !.cashFlows = Outflows(args.params)]
    /\ UNCHANGED <<args, rng, simulations, returned, clock, probe, db, requests>>

IndexOf(seq, x) == CHOOSE k \in 1..Len(seq) : seq[k] = x

InSeq(seq, x) == \E k \in 1..Len(seq) : seq[k] = x

\* lines 276-293: the multiple company i exits at
OutcomeOf(r, i) ==
    IF InSeq(r.convictionIndices, i)
    THEN r.convictionOutcomes[IndexOf(r.convictionIndices, i)]
    ELSE r.discoveryOutcomes[i + 1]

Exited(r, y, dist) ==
    [r EXCEPT !.i = @ + 1,
              !.cashFlows = PlusAt(@, y, dist),
              !.exitYears = Append(@, y),
              !.totalDistGross = SignedAdd(@, dist)]

ExitedAt(y) ==
    /\ rng' = y.rng
    /\ run' = Exited(run, y.val,
                     Distribution(args.params, run.i, OutcomeOf(run, run.i),
                                  InSeq(run.convictionIndices, run.i),
                                  run.i \in run.followOnIndices))

\* lines 273-298: one pass of the exit loop, for company run.i
ExitStep ==
    /\ pc = "run" /\ run.stage = "exit"
    /\ run.i < NumDiscovery(args.params)
    /\ ExitedAt(randInt(rng, 4, args.params.fundLife))
    /\ UNCHANGED <<pc, args, simulations, returned, clock, probe, db, requests>>

\* lines 301-316, from totalDistGross, totalCalled and the cash flows
Metrics(p, gross, called, cf) ==
    [ totalCalled |-> called,
      totalDistGross |-> gross,
      totalDistNet |-> TotalDistNet(p, gross, called),
      grossTvpi |-> GrossTvpi(gross, called),
      netTvpi |-> NetTvpi(p, gross, called),
      dpiGross |-> GrossTvpi(gross, called),
      dpiNet |-> NetTvpi(p, gross, called),
      irrNet |-> calculateIRR(CashFlowsNet(p, cf, CarryPaid(p, gross, called)), Dollar(p)),
      carryPaid |-> CarryPaid(p, gross, called) ]

\* the counts of lines 328-330
Counts(p) ==
    [ discoveryOnlyCount |-> NumDiscovery(p) - NumConviction(p),
      convictionCount |-> NumConviction(p),
      followOnCount |-> NumFollowOn(p) ]

\* the SimulationResult of lines 318-331
SimulationResult(p, r) ==
    Metrics(p, r.totalDistGross, TotalCalled(r.cashFlows), r.cashFlows) @@ Counts(p)

\* lines 301-331 and 374: the run returns and its result is pushed.  Beside
\* the result an entry records what the run did to the generator.
FinishRun ==
    /\ pc = "run" /\ run.stage = "exit"
    /\ run.i >= NumDiscovery(args.params)
    /\ simulations' = Append(simulations,
           [ result |-> SimulationResult(args.params, run),
             from |-> run.start, to |-> rng,
             discoveryOutcomes |-> run.discoveryOutcomes,
             tractionSignals |-> run.tractionSignals,
             cashFlows |-> run.cashFlows,
             exitYears |-> run.exitYears,
             convictionIndices |-> run.convictionIndices,
             convictionOutcomes |-> run.convictionOutcomes,
             followOnIndices |-> run.followOnIndices,
             warned |-> run.warned ])
    /\ run' = NoRun
    /\ pc' = "loop"
    /\ UNCHANGED <<args, rng, returned, clock, probe, db, requests>>

\* the MonteCarloResults of lines 387-400 (the fields modelled so far)
\* s.netTvpi <= theta, the comparison turned round
AtMost(netTvpi, theta) ==
    \/ netTvpi.kind = "ninf"
    \/ netTvpi.kind = "num" /\ ~NumLess(ScaleInt(netTvpi.den, theta), netTvpi.num)

\* s.netTvpi >= theta, false for NaN
AtLeast(netTvpi, theta) ==
    \/ netTvpi.kind = "inf"
    \/ netTvpi.kind = "num" /\ ~NumLess(netTvpi.num, ScaleInt(netTvpi.den, theta))

\* lines 383-385: simulations.filter(s => s.netTvpi >= theta).length /
\* numSimulations, kept as the count and the divisor; 0 / 0 is NaN
Probability(sims, theta, n) ==
    [ kind |-> IF n = 0 /\ Len(sims) = 0 THEN "nan" ELSE "num",
      count |-> Cardinality({ k \in 1..Len(sims) : AtLeast(sims[k].result.netTvpi, theta) }),
      over |-> n ]

\* The four summaries of lines 389-394 are calculateSummary of the runs'
\* grossTvpi, netTvpi, dpiNet and irrNet; calculateSummary is modelled below,
\* on vectors of doubles.
MonteCarloResults(sims, p, n) ==
    [ simulations |-> [k \in 1..Len(sims) |-> sims[k].result],
      probReturnFund |-> Probability(sims, 1, n),
      prob2x |-> Probability(sims, 2, n),
      prob3x |-> Probability(sims, 3, n),
      params |-> p,
      numSimulations |-> n ]

\* lines 373 and 377-400: the loop is over; aggregate and return
Return ==
    /\ pc = "loop"
    /\ Len(simulations) >= args.n
    /\ returned' = [ calls |-> IF returned.calls < 2 THEN returned.calls + 1 ELSE 2,
                     last |-> MonteCarloResults(simulations, args.params, args.n),
                     prior |-> returned.last,
                     at |-> clock.now,
                     priorAt |-> returned.at ]
    /\ pc' = "idle"
    /\ UNCHANGED <<args, rng, simulations, run, clock, probe, db, requests>>

Next ==
    \/ Call
    \/ EnterRun
    \/ DiscoverStep
    \/ SelectConviction
    \/ ConvictStep
    \/ PlanFollowOn
    \/ ExitStep
    \/ FinishRun
    \/ Return

Spec == Init /\ [][Next]_vars

-----------------------------------------------------------------------------
(* Direct calls of the generator's and the samplers' methods, from any seed *)

MaxDraws == 3

\* Seeds a caller may pass: small ones, negative ones, 2^32 - 1, a wall-clock
\* reading in milliseconds (1762214400000), 2^53 - 1 and -(2^62 + 2^20).
CallerSeeds ==
    { Small(0), Small(1), Small(42), Small(-1), Small(-610), Small(-1000),
      Num(FALSE, Word(65535, 65535)),
      Num(FALSE, Limbs4(53248, 19497, 410, 0)),
      Num(FALSE, Limbs4(65535, 65535, 65535, 31)),
      Num(TRUE, Limbs4(0, 16, 0, 16384)) }

\* Generator states whose next draw is the last value below, or the first value
\* not below, each literal of the two band tables; the state whose next draw
\* is 0; and states that draw into the top band and then draw u within
\* 200 / 2^32 of 1.
BandEdgeSeeds ==
    { Num(FALSE, Word(w[1], w[2])) : w \in
        { <<3189, 65060>>, <<2902, 22249>>, <<39349, 55970>>, <<39062, 13159>>,
          <<38613, 62333>>, <<38326, 19522>>, <<28726, 1342>>, <<28438, 24067>>,
          <<37878, 3160>>, <<37590, 25885>>, <<42741, 46880>>, <<42454, 4069>>,
          <<2741, 48698>>, <<2454, 5887>>, <<57653, 59606>>, <<57366, 16795>>,
          <<19573, 65060>>, <<19286, 22249>>, <<52117, 56879>>, <<51830, 14068>>,
          <<23925, 57788>>, <<23638, 14977>>,
          <<9686, 4069>>, <<63335, 798>>, <<20833, 20574>>, <<35409, 16684>> } }

ProbeSeeds == CallerSeeds \cup BandEdgeSeeds

\* (min, max) pairs for randInt: the exit-year range of a ten-year fund, of a
\* four-year fund and of a one-year fund
IntRanges == { <<4, 10>>, <<4, 4>>, <<4, 1>> }


Probed(op, d) == [op |-> op, before |-> rng, val |-> d.val]

InitProbe ==
    /\ pc = "probe"
    /\ \E s \in ProbeSeeds :
          /\ rng = NewRng(s)
          /\ args = [params |-> "none", n |-> 0, seed |-> s]
    /\ simulations = <<>>
    /\ run = NoRun
    /\ returned = NoCall
    /\ clock = NoClock
    /\ db = NoDb
    /\ requests = <<>>
    /\ probe = [op |-> "new", before |-> rng, val |-> 0]

ProbeStep(op, d) ==
    /\ pc = "probe"
    /\ rng.draws < MaxDraws
    /\ rng' = d.rng
    /\ probe' = Probed(op, d)
    /\ UNCHANGED <<pc, args, simulations, run, returned, clock, db, requests>>

CallRandom == ProbeStep("random", random(rng))

CallGaussian == ProbeStep("gaussian", gaussian(rng))

CallRandInt ==
    \E mm \in IntRanges : ProbeStep("randInt", randInt(rng, mm[1], mm[2]))

CallSampleDiscovery == ProbeStep("discovery", sampleDiscoveryOnlyMultiple(rng))

CallSampleConviction == ProbeStep("conviction", sampleConvictionMultiple(rng))

NextProbe ==
    \/ CallRandom
    \/ CallGaussian
    \/ CallRandInt
    \/ CallSampleDiscovery
    \/ CallSampleConviction

SpecProbe == InitProbe /\ [][NextProbe]_vars


-----------------------------------------------------------------------------
(* Properties of the generator and the samplers, under SpecProbe *)

Two32 == Limbs4(0, 0, 1, 0)

\* a value in [0, 2^32): an unsigned 32-bit word, the numerator of a draw in [0, 1)
IsWord32(x) == ~x.neg /\ Less(x.mag, Two32)

\* r < k / 1000, exactly
BelowThousandths(r, k) == r.neg \/ Less(MulSmall(r.mag, 1000), MulSmall(Two32, k))

\* the first and the second draw of the last call
FirstDraw == random(probe.before).val
SecondDraw == random(random(probe.before).rng).val
DrawsUsed == rng.draws - probe.before.draws

\* C2: whatever integer seed the caller passed, every uniform() returns a value
\* in [0, 1) and leaves the state an unsigned 32-bit word.
UniformInUnitInterval ==
    /\ rng.draws >= 1 => IsWord32(rng.seed)
    /\ probe.op = "random" => IsWord32(probe.val)

\* (a * x + c) mod 2^32 on integers, nothing rounded
ExactStep(x) ==
    LET y == Add(Multiplier(x), Increment)
    IN  [i \in 1..NumLimbs |-> IF i <= 2 THEN y[i] ELSE 0]

\* s mod 2^32, in [0, 2^32)
Residue(s) ==
    LET low == [i \in 1..NumLimbs |-> IF i <= 2 THEN s.mag[i] ELSE 0]
    IN  IF s.neg /\ low # Zero THEN Sub(Two32, low) ELSE low

RECURSIVE ExactIter(_, _)
ExactIter(x, k) == IF k = 0 THEN x ELSE ExactIter(ExactStep(x), k - 1)

\* C3: the state after the k-th uniform() is the k-fold iterate of
\* x -> (1664525 x + 1013904223) mod 2^32 from the seed, nothing lost to
\* rounding, and the value returned is that state over 2^32.
ExactRecurrence ==
    /\ rng.draws >= 1 =>
          rng.seed = Num(FALSE, ExactIter(Residue(args.seed), rng.draws))
    /\ probe.op = "random" => probe.val = rng.seed

\* C4: a sampler call that returns 0 drew once, with r in the first band; one
\* that returns a non-zero multiple drew twice; no call draws otherwise.
SamplerDrawCounts ==
    probe.op \in {"discovery", "conviction"} =>
        /\ probe.val = Tenths(0) =>
              /\ DrawsUsed = 1
              /\ BelowThousandths(FirstDraw,
                                  IF probe.op = "discovery" THEN 700 ELSE 500)
        /\ probe.val # Tenths(0) => DrawsUsed = 2

SamplerDrawCountsWitness ==
    /\ probe.op = "discovery"
    /\ probe.val # Tenths(0)
    /\ DrawsUsed = 2

\* The band tables: r range in thousandths, base and width in tenths.
Band(lo, hi, base, width) == [lo |-> lo, hi |-> hi, base |-> base, width |-> width]

DiscoveryBands ==
    { Band(0, 700, 0, 0), Band(700, 850, 5, 15), Band(850, 920, 20, 30),
      Band(920, 970, 50, 50), Band(970, 990, 100, 100), Band(990, 1000, 200, 300) }

ConvictionBands ==
    { Band(0, 500, 0, 0), Band(500, 770, 8, 4), Band(770, 890, 25, 15),
      Band(890, 950, 50, 50), Band(950, 985, 150, 100), Band(985, 995, 300, 200),
      Band(995, 1000, 750, 750) }

InBand(r, b) == ~BelowThousandths(r, b.lo) /\ BelowThousandths(r, b.hi)

FollowsTable(bands, least, most) ==
    LET b == CHOOSE c \in bands : InBand(FirstDraw, c)
    IN  /\ Cardinality({c \in bands : InBand(FirstDraw, c)}) = 1
        /\ probe.val = Tenths(0) <=> b.lo = 0
        /\ b.lo # 0 =>
              /\ IsWord32(SecondDraw) =>
                    /\ probe.val = Affine(b.base, b.width, SecondDraw)
                    /\ ~NumLess(probe.val, Tenths(least))
                    /\ NumLess(probe.val, Tenths(most))

\* C5: for r and u in [0, 1) each sampler returns 0 exactly when r is in the
\* first band of its table and otherwise base + u * width of the one band
\* [lo, hi) that holds r; results lie in {0} \cup [0.5, 50) for discovery_only
\* and in {0} \cup [0.8, 150) for conviction.
SamplersFollowTables ==
    /\ probe.op = "discovery" /\ IsWord32(FirstDraw) =>
          FollowsTable(DiscoveryBands, 5, 500)
    /\ probe.op = "conviction" /\ IsWord32(FirstDraw) =>
          FollowsTable(ConvictionBands, 8, 1500)

\* r is exactly 0.5, the one table boundary a draw can equal
SamplersFollowTablesWitness ==
    /\ probe.op = "conviction"
    /\ FirstDraw = Num(FALSE, Word(32768, 0))
    /\ probe.val = Affine(8, 4, SecondDraw)

\* C6: a gaussian call draws exactly twice, also when u1 = 0, and leaves the
\* generator two steps past where it was.
GaussianTwoDraws ==
    probe.op = "gaussian" =>
        /\ DrawsUsed = 2
        /\ rng.seed = NextSeed(NextSeed(probe.before.seed))

GaussianTwoDrawsWitness ==
    /\ probe.op = "gaussian"
    /\ FirstDraw = Small(0)
    /\ probe.val \in {PlusInf, MinusInf}


-----------------------------------------------------------------------------
(* Properties of the driver and of the single run, under Spec *)

Used(e) == e.to.draws - e.from.draws

\* C7 as stated: the number of draws of a run is fixed by params, so two runs
\* of one call consume the same number of draws.
DrawCountFixedByParams ==
    \A j, k \in 1..Len(simulations) : Used(simulations[j]) = Used(simulations[k])

NonZero(outcomes) == Cardinality({k \in 1..Len(outcomes) : outcomes[k] # Tenths(0)})

\* C7 as amended: params fix the number of sampler, gaussian and exit-year
\* calls of a run (maxDiscoveryChecks discovery samples, signals and exit
\* years, numConviction conviction samples); the number of draws is
\* 4 * maxDiscoveryChecks + numConviction plus one for every sampler call that
\* returned a non-zero multiple.
DrawCountFollowsOutcomes ==
    \A k \in 1..Len(simulations) :
        LET e == simulations[k]
            p == args.params
        IN  /\ Len(e.discoveryOutcomes) = p.maxDiscoveryChecks
            /\ Len(e.convictionOutcomes) = NumConviction(p)
            /\ Used(e) = 4 * p.maxDiscoveryChecks + NumConviction(p)
                           + NonZero(e.discoveryOutcomes) + NonZero(e.convictionOutcomes)

DrawCountFollowsOutcomesWitness ==
    /\ Len(simulations) = 2
    /\ Used(simulations[1]) # Used(simulations[2])

\* the generator as the constructor left it
Constructed == NewRng(SeedUsed)

\* C8: the runs of a call follow one another on one stream: the first starts
\* from the constructed generator, every later one from the state the run
\* before it left, the driver's generator is where the last run left it, and
\* the call returns exactly numSimulations results with params and
\* numSimulations echoed.
SequentialStream ==
    /\ \A k \in 1..Len(simulations) :
          /\ simulations[k].from =
                (IF k = 1 THEN Constructed ELSE simulations[k - 1].to)
          /\ simulations[k].to.draws >= simulations[k].from.draws
    /\ pc = "run" =>
          run.start = (IF simulations = <<>> THEN Constructed
                       ELSE simulations[Len(simulations)].to)
    /\ pc = "loop" =>
          rng = (IF simulations = <<>> THEN Constructed
                 ELSE simulations[Len(simulations)].to)
    /\ pc \in {"loop", "run"} => Len(simulations) <= args.n
    /\ pc = "idle" /\ returned.calls >= 1 =>
          /\ Len(returned.last.simulations) = args.n
          /\ returned.last.simulations =
                [k \in 1..Len(simulations) |-> simulations[k].result]
          /\ returned.last.params = args.params
          /\ returned.last.numSimulations = args.n

SequentialStreamWitness ==
    /\ pc = "run"
    /\ Len(simulations) = 1
    /\ run.start = simulations[1].to
    /\ run.start.draws > 0
    /\ rng.draws > run.start.draws

\* C9: an explicitly passed seed, 0 included, seeds the generator with that
\* exact value and the clock is not read; the clock is read, and its reading
\* is the seed, only when the seed is undefined.
ExplicitSeedUsed ==
    pc # "idle" =>
        LET made == IF simulations # <<>> THEN simulations[1].from
                    ELSE IF pc \in {"run", "threw"} THEN run.start ELSE rng
        IN  /\ args.seed.defined => made = NewRng(args.seed.num) /\ ~clock.read
            /\ ~args.seed.defined => made = NewRng(clock.now) /\ clock.read

ExplicitSeedUsedWitness ==
    /\ pc = "run"
    /\ args.seed = Given(Small(0))
    /\ run.start = NewRng(Small(0))
    /\ ~clock.read

\* C10: in every run discoveryOnlyCount + convictionCount = maxDiscoveryChecks,
\* 0 <= followOnCount <= convictionCount, and the reported counts are the
\* sizes of the conviction set and of the follow-on set.
CountsConsistent ==
    \A k \in 1..Len(simulations) :
        LET e == simulations[k]
            r == e.result
        IN  /\ r.discoveryOnlyCount + r.convictionCount = args.params.maxDiscoveryChecks
            /\ r.followOnCount.kind = "num"
            /\ 0 <= r.followOnCount.v
            /\ r.followOnCount.v <= r.convictionCount
            /\ r.convictionCount = Len(e.convictionIndices)
            /\ r.followOnCount.v = Cardinality(e.followOnIndices)


-----------------------------------------------------------------------------
(* Properties of the metrics of a run, under Spec *)

Percent(x) == 0 <= x /\ x <= 100

\* the parameter records the engine's contract accepts
Valid(p) ==
    /\ p.fundSize >= 0
    /\ p.fundLife >= 1
    /\ Percent(p.mgmtFeeRate) /\ Percent(p.mgmtFeeStepdown) /\ Percent(p.carry)
    /\ Percent(p.followOnReservePercent) /\ Percent(p.graduationRate)
    /\ p.mgmtFeeFullYears >= 0
    /\ p.discoveryCheckSize >= 0 /\ p.convictionCheckSize >= 0
    /\ p.maxDiscoveryChecks >= 0

Hundred(x) == ScaleInt(x, 100)

\* C11: for valid params every run has totalCalled >= 0,
\* totalDistGross >= totalDistNet >= 0,
\* carryPaid = max(totalDistGross - totalCalled, 0) * carry and
\* totalDistNet = totalDistGross - carryPaid.
CarryInvariants ==
    Valid(args.params) =>
        \A k \in 1..Len(simulations) :
            LET r == simulations[k].result
            IN  /\ ~r.totalCalled.neg
                /\ ~NumLess(Hundred(r.totalDistGross), r.totalDistNet)
                /\ ~r.totalDistNet.neg
                /\ r.carryPaid =
                      (IF NumLess(r.totalCalled, r.totalDistGross)
                       THEN ScaleInt(SignedAdd(r.totalDistGross, Negated(r.totalCalled)),
                                     args.params.carry)
                       ELSE Small(0))
                /\ SignedAdd(r.totalDistNet, r.carryPaid) = Hundred(r.totalDistGross)

CarryInvariantsWitness ==
    /\ Valid(args.params)
    /\ Len(simulations) = 2
    /\ \E k \in 1..2 : /\ ~simulations[k].result.carryPaid.neg
                       /\ simulations[k].result.carryPaid.mag # Zero
    /\ \E k \in 1..2 : /\ simulations[k].result.carryPaid = Small(0)
                       /\ NumLess(simulations[k].result.totalDistGross,
                                  simulations[k].result.totalCalled)

\* a >= b and a = b on doubles that are quotients by the same totalCalled: NaN
\* compares false with everything, itself included
RatioGeq(a, b) ==
    /\ a.kind # "nan" /\ b.kind # "nan"
    /\ \/ a.kind = "inf"
       \/ b.kind = "ninf"
       \/ a.kind = "num" /\ b.kind = "num" /\ ~NumLess(a.num, b.num)

RatioEq(a, b) == a.kind # "nan" /\ a = b

IsZeroRatio(a) == a.kind = "num" /\ a.num = Small(0)

\* C12: for valid params, carry = 0 included, every run has
\* grossTvpi >= netTvpi, with equality if and only if
\* totalDistGross <= totalCalled.
GrossTvpiAtLeastNet ==
    Valid(args.params) =>
        \A k \in 1..Len(simulations) :
            LET r == simulations[k].result
            IN  /\ RatioGeq(r.grossTvpi, r.netTvpi)
                /\ RatioEq(r.grossTvpi, r.netTvpi)
                      <=> ~NumLess(r.totalCalled, r.totalDistGross)

\* C13: with carry = 0 and otherwise valid params every run has
\* netTvpi = grossTvpi, carryPaid = 0 and totalDistNet = totalDistGross.
NoCarryNetEqualsGross ==
    Valid(args.params) /\ args.params.carry = 0 =>
        \A k \in 1..Len(simulations) :
            LET r == simulations[k].result
            IN  /\ RatioEq(r.netTvpi, r.grossTvpi)
                /\ r.carryPaid = Small(0)
                /\ r.totalDistNet = Hundred(r.totalDistGross)

\* C14: a run whose totalCalled is 0 reports grossTvpi, netTvpi, dpiGross and
\* dpiNet as 0, neither infinite nor NaN, and irrNet as 0.
ZeroCalledGivesZeros ==
    \A k \in 1..Len(simulations) :
        LET r == simulations[k].result
        IN  r.totalCalled = Small(0) =>
                /\ IsZeroRatio(r.grossTvpi) /\ IsZeroRatio(r.netTvpi)
                /\ IsZeroRatio(r.dpiGross) /\ IsZeroRatio(r.dpiNet)
                /\ r.irrNet = Rate(0)

\* C15: params with a negative fundSize, fundLife <= 0 or a rate outside
\* [0,1] are rejected at entry: no draw is consumed, no run is made and the
\* call returns a single InvalidParams result.
RejectsInvalidParams ==
    ~Valid(args.params) =>
        /\ rng.draws = 0
        /\ pc \notin {"run", "threw"}
        /\ simulations = <<>>
        /\ pc = "idle" /\ returned.calls >= 1 => DOMAIN returned.last = {"error"}

\* C16: no call raises, whatever the params, the run count and the seed; in
\* particular building the cash-flow series of length fundLife + 1 does not.
NeverRaises == pc # "threw"

FloatGreater(a, b) ==
    IF a.kind = "num" /\ b.kind = "num" THEN a.v > b.v
    ELSE a.kind # b.kind /\ (a.kind = "inf" \/ b.kind = "ninf")

\* company i comes before company j: the larger signal first, the smaller
\* index first among equal signals
SignalBefore(signals, i, j) ==
    \/ FloatGreater(signals[i + 1], signals[j + 1])
    \/ signals[i + 1] = signals[j + 1] /\ i < j

SignalRank(signals, i) ==
    Cardinality({j \in 0..(Len(signals) - 1) : SignalBefore(signals, j, i)})

Range(seq) == {seq[k] : k \in 1..Len(seq)}

\* C18: for valid params the conviction set of a run is the numConviction
\* companies that come first when the discovery companies are ordered by
\* traction signal descending, equal signals by ascending original index.
ConvictionByTraction ==
    Valid(args.params) =>
        \A k \in 1..Len(simulations) :
            LET e == simulations[k]
            IN  (\A i \in 1..Len(e.tractionSignals) : e.tractionSignals[i].kind # "nan") =>
                    /\ Len(e.convictionIndices) = NumConviction(args.params)
                    /\ Range(e.convictionIndices) =
                          {i \in 0..(Len(e.tractionSignals) - 1) :
                              SignalRank(e.tractionSignals, i) < NumConviction(args.params)}

\* two companies with the same signal, the one taken and the other left out
ConvictionByTractionWitness ==
    /\ Valid(args.params)
    /\ Len(simulations) >= 1
    /\ LET e == simulations[Len(simulations)]
       IN  \E i, j \in 0..(Len(e.tractionSignals) - 1) :
              /\ i < j
              /\ e.tractionSignals[i + 1] = e.tractionSignals[j + 1]
              /\ i \in Range(e.convictionIndices)
              /\ j \notin Range(e.convictionIndices)

\* the post-redraw outcome of conviction company i
RedrawnOutcome(e, i) == e.convictionOutcomes[IndexOf(e.convictionIndices, i)]

\* conviction company i comes before conviction company j: the larger
\* outcome first, the smaller original index first among equal outcomes
OutcomeBefore(e, i, j) ==
    \/ NumLess(RedrawnOutcome(e, j), RedrawnOutcome(e, i))
    \/ RedrawnOutcome(e, i) = RedrawnOutcome(e, j) /\ i < j

OutcomeRank(e, i) ==
    Cardinality({j \in Range(e.convictionIndices) : OutcomeBefore(e, j, i)})

\* C19: for valid params with a numFollowOn that is a number, the follow-on
\* set of a run is the numFollowOn conviction companies with the largest
\* post-redraw outcomes, the smaller original index first among equal
\* outcomes.
FollowOnByOutcome ==
    Valid(args.params) /\ NumFollowOn(args.params).kind = "num" =>
        \A k \in 1..Len(simulations) :
            LET e == simulations[k]
            IN  e.followOnIndices =
                    {i \in Range(e.convictionIndices) :
                        OutcomeRank(e, i) < NumFollowOn(args.params).v}

\* C20: for valid params (fundLife >= 1) the cash-flow series of a run has
\* exactly the entries CF[0..fundLife], every one a number, and every exit
\* year lies in [4, fundLife].
CashFlowsWithinFundLife ==
    Valid(args.params) =>
        \A k \in 1..Len(simulations) :
            LET e == simulations[k]
            IN  /\ Len(e.cashFlows) = args.params.fundLife + 1
                /\ \A j \in 1..Len(e.cashFlows) : e.cashFlows[j].kind = "num"
                /\ \A j \in 1..Len(e.exitYears) :
                      4 <= e.exitYears[j] /\ e.exitYears[j] <= args.params.fundLife

\* the entry of year t is a negative number
IsOutflow(cf, t) == t + 1 <= Len(cf) /\ cf[t + 1].kind = "num" /\ cf[t + 1].amt.neg

\* C21: with followOnReservePercent = 0 (and otherwise valid params) every
\* run reports followOnCount = 0 and has no outflow in the years 2 and 3.
NoReserveNoFollowOn ==
    Valid(args.params) /\ args.params.followOnReservePercent = 0 =>
        \A k \in 1..Len(simulations) :
            LET e == simulations[k]
            IN  /\ e.result.followOnCount = Finite(0)
                /\ ~IsOutflow(e.cashFlows, 2)
                /\ ~IsOutflow(e.cashFlows, 3)

-----------------------------------------------------------------------------
(* calculateSummary, called directly on a vector of doubles *)

\* sorted[k], undefined outside the array
At(sorted, k) == IF k >= 0 /\ k < Len(sorted) THEN sorted[k + 1] ELSE UndefinedDouble

\* sorted[lower] * (1 - weight) + sorted[upper] * weight
Weighted(sorted, lower, upper, weight) ==
    DoublePlus(DoubleTimes(At(sorted, lower), DoubleMinus(FromInt(1), weight)),
               DoubleTimes(At(sorted, upper), weight))

Interpolated(sorted, idx) ==
    Weighted(sorted, MathFloor(idx), MathCeil(idx),
             DoubleMinus(idx, FromInt(MathFloor(idx))))

\* idx = (p / 100) * (n - 1)
percentile(sorted, p) ==
    Interpolated(sorted,
                 DoubleTimes(DoubleOverInt(FromInt(p), 100), FromInt(Len(sorted) - 1)))

RECURSIVE SumFrom(_, _, _)
SumFrom(values, k, acc) ==
    IF k > Len(values) THEN acc ELSE SumFrom(values, k + 1, DoublePlus(acc, values[k]))

\* values.reduce((a, b) => a + b, 0) / n
Mean(values) ==
    IF Len(values) = 0 THEN NaNDouble
    ELSE DoubleOverInt(SumFrom(values, 1, FromInt(0)), Len(values))

SummaryOf(values, sorted) ==
    [mean |-> Mean(values),
     p10 |-> percentile(sorted, 10),
     p25 |-> percentile(sorted, 25),
     p50 |-> percentile(sorted, 50),
     p75 |-> percentile(sorted, 75),
     p90 |-> percentile(sorted, 90),
     min |-> At(sorted, 0),
     max |-> At(sorted, Len(sorted) - 1)]

calculateSummary(values) == SummaryOf(values, Sort("ascending", values))

MaxValues == 3

\* 0, 0.1, 0.3, 1, 2.5 and -0.5
SummaryValues ==
    { FromInt(0), DoubleOverInt(FromInt(1), 10), DoubleOverInt(FromInt(3), 10),
      FromInt(1), DoubleOverInt(FromInt(5), 2), DoubleOverInt(FromInt(-1), 2) }

SummaryVectors == UNION { [1..k -> SummaryValues] : k \in 0..MaxValues }

\* probe.before holds the argument of the call, probe.val what it returned
InitSummary ==
    /\ pc = "summary"
    /\ rng = NewRng(Small(0))
    /\ args = [params |-> "none", n |-> 0, seed |-> Small(0)]
    /\ simulations = <<>>
    /\ run = NoRun
    /\ returned = NoCall
    /\ clock = NoClock
    /\ db = NoDb
    /\ requests = <<>>
    /\ \E values \in SummaryVectors : probe = [op |-> "values", before |-> values, val |-> 0]

CallCalculateSummary ==
    /\ pc = "summary"
    /\ probe.op = "values"
    /\ probe' = [op |-> "calculateSummary", before |-> probe.before,
                 val |-> calculateSummary(probe.before)]
    /\ UNCHANGED <<pc, args, rng, simulations, run, returned, clock, db, requests>>

NextSummary == CallCalculateSummary

SpecSummary == InitSummary /\ [][NextSummary]_vars

Summarised == pc = "summary" /\ probe.op = "calculateSummary"

\* C23: for a non-empty vector of finite values the summary satisfies
\* min <= p10 <= p25 <= p50 <= p75 <= p90 <= max, and for a one-element
\* vector all seven equal the element.
PercentilesMonotone ==
    Summarised /\ Len(probe.before) >= 1 =>
        LET q == probe.val
        IN  /\ DoubleLeq(q.min, q.p10)
            /\ DoubleLeq(q.p10, q.p25)
            /\ DoubleLeq(q.p25, q.p50)
            /\ DoubleLeq(q.p50, q.p75)
            /\ DoubleLeq(q.p75, q.p90)
            /\ DoubleLeq(q.p90, q.max)
            /\ Len(probe.before) = 1 =>
                   \A f \in {"min", "p10", "p25", "p50", "p75", "p90", "max"} :
                       q[f] = probe.before[1]

-----------------------------------------------------------------------------
(* Properties of the driver's aggregation, under Spec *)

HasReturned == returned.calls >= 1

\* the number of runs of a result whose netTvpi is at least theta, counted
\* from the result's own simulations
RunsAtLeast(res, theta) ==
    Cardinality({ k \in 1..Len(res.simulations) :
                    LET t == res.simulations[k].netTvpi
                    IN  RatioGeq(t, Ratio(ScaleInt(t.den, theta), t.den)) })

\* C24: in every result with numSimulations >= 1 each threshold probability is
\* the number of runs with netTvpi >= 1, 2, 3 over numSimulations, lies in
\* [0, 1], and probReturnFund >= prob2x >= prob3x.
ThresholdsMonotone ==
    HasReturned /\ returned.last.numSimulations >= 1 =>
        LET res == returned.last
        IN  /\ \A f \in {"probReturnFund", "prob2x", "prob3x"} :
                  /\ res[f].kind = "num"
                  /\ res[f].over = res.numSimulations
                  /\ 0 <= res[f].count /\ res[f].count <= res[f].over
            /\ res.probReturnFund.count = RunsAtLeast(res, 1)
            /\ res.prob2x.count = RunsAtLeast(res, 2)
            /\ res.prob3x.count = RunsAtLeast(res, 3)
            /\ res.probReturnFund.count >= res.prob2x.count
            /\ res.prob2x.count >= res.prob3x.count

\* a result of two runs, one of which returned the fund without tripling it
ThresholdsMonotoneWitness ==
    /\ HasReturned
    /\ returned.last.numSimulations = 2
    /\ returned.last.probReturnFund.count > returned.last.prob3x.count

-----------------------------------------------------------------------------
(* Properties of the follow-on reserve, under Spec *)

\* followOnReserve = fundSize * followOnReservePercent, in units
FollowOnReserve(p) ==
    ScaleInt(Tenths(10), (p.fundSize * p.followOnReservePercent * Den(p)) \div 100)

\* the entries of the years 2 and 3 are equal numbers that sum to minus x
PaidInHalves(cf, x) ==
    /\ Len(cf) >= 4
    /\ cf[3].kind = "num" /\ cf[4].kind = "num"
    /\ cf[3] = cf[4]
    /\ SignedAdd(cf[3].amt, cf[4].amt) = Negated(x)

\* C26: with valid params, a run with numFollowOn > 0 has numFollowOn
\* follow-on companies (whose checks of followOnReserve / numFollowOn sum to
\* the reserve) and pays out exactly followOnReserve, half in year 2 and half
\* in year 3; a run with numFollowOn = 0 has no follow-on company and no
\* outflow in the years 2 and 3.
ReserveDeployed ==
    Valid(args.params) =>
        \A k \in 1..Len(simulations) :
            LET e == simulations[k]
                p == args.params
            IN  /\ HasFollowOn(p) =>
                      /\ Cardinality(e.followOnIndices) = NumFollowOn(p).v
                      /\ PaidInHalves(e.cashFlows, FollowOnReserve(p))
                /\ NumFollowOn(p) = Finite(0) =>
                      /\ e.followOnIndices = {}
                      /\ ~IsOutflow(e.cashFlows, 2)
                      /\ ~IsOutflow(e.cashFlows, 3)

\* what the checks and the reserve add up to, in units
ChecksAndReserve(p) ==
    SignedAdd(Whole(p, p.maxDiscoveryChecks * p.discoveryCheckSize
                        + NumConviction(p) * p.convictionCheckSize),
              IF HasFollowOn(p) THEN FollowOnReserve(p) ELSE Small(0))

\* C28: with valid params and fundLife >= 4 the totalCalled of every run is
\* maxDiscoveryChecks * discoveryCheckSize + numConviction * convictionCheckSize
\* + (followOnReserve if numFollowOn > 0), whatever was drawn; the outflows
\* lie in the years 1 to 3 and the exits in the years from 4 on; and the cash
\* flows sum to totalDistGross - totalCalled.
TotalCalledFixedByParams ==
    Valid(args.params) /\ args.params.fundLife >= 4 =>
        \A k \in 1..Len(simulations) :
            LET e == simulations[k]
            IN  /\ e.result.totalCalled = ChecksAndReserve(args.params)
                /\ \A t \in 1..Len(e.cashFlows) : e.cashFlows[t].kind = "num"
                /\ \A t \in 0..(Len(e.cashFlows) - 1) : IsOutflow(e.cashFlows, t) => t \in 1..3
                /\ \A i \in 1..Len(e.exitYears) : e.exitYears[i] >= 4
                /\ SumAll(e.cashFlows, 1)
                     = SignedAdd(e.result.totalDistGross, Negated(e.result.totalCalled))

\* two runs of one call that distributed different amounts, with a follow-on
TotalCalledFixedByParamsWitness ==
    /\ Valid(args.params) /\ args.params.fundLife >= 4 /\ HasFollowOn(args.params)
    /\ Len(simulations) = 2
    /\ simulations[1].result.totalDistGross # simulations[2].result.totalDistGross
    /\ simulations[1].result.totalDistGross # Small(0)

-----------------------------------------------------------------------------
(* A second call of the driver with the same seed and numSimulations and      *)
(* with related params: other management fees, or other amounts               *)

\* no fees at all; fees of 10 % for the whole fund life
FeeVariants(p) ==
    { [p EXCEPT !.mgmtFeeRate = 0, !.mgmtFeeFullYears = 0, !.mgmtFeeStepdown = 100],
      [p EXCEPT !.mgmtFeeRate = 10,
                !.mgmtFeeFullYears = IF p.fundLife > 0 THEN p.fundLife ELSE 0,
                !.mgmtFeeStepdown = 0] }

\* fundSize and the check sizes times k
Scaled(p, k) ==
    [p EXCEPT !.fundSize = k * @, !.discoveryCheckSize = k * @,
              !.convictionCheckSize = k * @]

\* the same amounts in million-millionths of a dollar: a factor of 10^-12
Shrunk(p) == [p EXCEPT !.micro = 2]

Variants(p) == FeeVariants(p) \cup { Scaled(p, 2), Shrunk(p) }

InitPair == Init /\ args.seed.defined /\ args.n >= 1

\* lines 364-371, called with a variant of the params of the first call
CallVariant ==
    /\ pc = "idle"
    /\ returned.calls = 1
    /\ \E v \in Variants(args.params) : args' = [args EXCEPT !.params = v]
    /\ \E now \in ClockReadings :
          LET s == SeedOrNow(args.seed, now)
          IN  /\ rng' = NewRng(s.seed)
              /\ clock' = [now |-> now, read |-> s.read]
    /\ simulations' = <<>>
    /\ pc' = "loop"
    /\ UNCHANGED <<run, returned, probe, db, requests>>

NextPair == Next \/ CallVariant

SpecPair == InitPair /\ [][NextPair]_vars

-----------------------------------------------------------------------------
(* Properties of two calls with related params, under SpecPair *)

ReturnedTwice == returned.calls >= 2

FeesOnlyDiffer(p, q) ==
    q = [p EXCEPT !.mgmtFeeRate = q.mgmtFeeRate,
                  !.mgmtFeeFullYears = q.mgmtFeeFullYears,
                  !.mgmtFeeStepdown = q.mgmtFeeStepdown]

TimesK(a, b, k) == b = ScaleInt(a, k)

SameRatio(a, b, k) ==
    /\ a.kind = b.kind
    /\ TimesK(a.num, b.num, k) /\ TimesK(a.den, b.den, k)

\* the same rate: the same value, or the solver's value for flows times k
SameRate(a, b, k) ==
    /\ a.kind = b.kind /\ a.v = b.v
    /\ Len(a.of) = Len(b.of)
    /\ \A t \in 1..Len(a.of) :
          a.of[t].kind = b.of[t].kind /\ TimesK(a.of[t].amt, b.of[t].amt, k)

\* run b is run a with the amounts times k and everything else the same
ScaledRun(a, b, k) ==
    /\ a.discoveryOnlyCount = b.discoveryOnlyCount
    /\ a.convictionCount = b.convictionCount
    /\ a.followOnCount = b.followOnCount
    /\ SameRatio(a.grossTvpi, b.grossTvpi, k) /\ SameRatio(a.netTvpi, b.netTvpi, k)
    /\ SameRatio(a.dpiGross, b.dpiGross, k) /\ SameRatio(a.dpiNet, b.dpiNet, k)
    /\ SameRate(a.irrNet, b.irrNet, k)
    /\ TimesK(a.totalCalled, b.totalCalled, k)
    /\ TimesK(a.totalDistGross, b.totalDistGross, k)
    /\ TimesK(a.totalDistNet, b.totalDistNet, k)
    /\ TimesK(a.carryPaid, b.carryPaid, k)

ScaledResults(a, b, k) ==
    /\ Len(a.simulations) = Len(b.simulations)
    /\ \A i \in 1..Len(a.simulations) : ScaledRun(a.simulations[i], b.simulations[i], k)

\* C25: two calls with the same seed, the second with fundSize and the check
\* sizes multiplied by k (2, or 10^-12, where the amounts are the same numbers
\* of a unit 10^12 times smaller), return runs with the same counts and the
\* same grossTvpi, netTvpi, dpiGross, dpiNet and irrNet, and with totalCalled,
\* totalDistGross, totalDistNet and carryPaid multiplied by k.
ScalingLaw ==
    ReturnedTwice /\ Valid(returned.prior.params) =>
        /\ returned.last.params = Scaled(returned.prior.params, 2) =>
               ScaledResults(returned.prior, returned.last, 2)
        /\ returned.last.params = Shrunk(returned.prior.params) =>
               ScaledResults(returned.prior, returned.last, 1)

-----------------------------------------------------------------------------
(* calculateIRR and binarySearchIRR, step by step.  The net present value and  *)
(* its derivative are not computed: an evaluation may yield any double, NaN    *)
(* and the infinities included, and so may the rate of a Newton step, with     *)
(* what arithmetic forces: from a NaN rate, or from flows that hold a NaN,     *)
(* the step's rate is NaN.  The rates themselves are doubles.  For the         *)
(* bisection the flows are given by the way their NPV changes sign.            *)

maxIterations == 100

InfDouble == [kind |-> "inf", neg |-> FALSE, man |-> Zero, exp |-> 0]

MinusInfDouble == [kind |-> "ninf", neg |-> TRUE, man |-> Zero, exp |-> 0]

\* guess = 0.1
Guess == DoubleOverInt(FromInt(1), 10)

\* -0.99, 10 and 5.0
MinRate == DoubleOverInt(FromInt(-99), 100)

MaxRate == FromInt(10)

BisectHigh == FromInt(5)

\* The flows handed to the solver: flows that hold a NaN; flows whose NPV has
\* the same sign at -0.99 and at 5; flows whose NPV times the NPV at -0.99 is
\* never negative, or always; flows whose NPV changes sign at one rate
\* (0.2337 or 4.99).
Series ==
    { [kind |-> k, root |-> Guess] : k \in {"nan", "same-sign", "climb", "descend"} }
      \cup { [kind |-> "root", root |-> r] :
                r \in { DoubleOverInt(FromInt(2337), 10000),
                        DoubleOverInt(FromInt(499), 100) } }

\* what rate - npv / dnpv may be: NaN, an infinity, -2, -0.99, -0.5, 0.1, 10
\* or 10.5
NewRates ==
    { NaNDouble, InfDouble, MinusInfDouble, FromInt(-2), MinRate,
      DoubleOverInt(FromInt(-1), 2), Guess, MaxRate, DoubleOverInt(FromInt(21), 2) }

\* the step's rate kept as it is
Unclamped(newRate) == newRate

\* lines 124-130
Clamp(newRate) ==
    IF newRate.kind = "ninf" \/ (newRate.kind = "num" /\ DoubleLess(newRate, MinRate))
    THEN MinRate
    ELSE IF newRate.kind = "inf" \/ (newRate.kind = "num" /\ DoubleLess(MaxRate, newRate))
    THEN MaxRate
    ELSE newRate

\* the solver's value reported as it is
ReportedRaw(irrNet) == irrNet

\* line 326: isNaN(irrNet) ? 0 : irrNet
Reported(irrNet) == IF irrNet.kind = "nan" THEN FromInt(0) ELSE irrNet

\* the locals of calculateIRR (i, rate, whether the last NPV was below the
\* tolerance), why the bisection was called, the locals of binarySearchIRR
\* (j counts its iterations) and what the solver returned
Solver(stage, i, rate, npv, why, j, low, high, result) ==
    [ stage |-> stage, i |-> i, rate |-> rate, npv |-> npv, why |-> why,
      j |-> j, low |-> low, high |-> high, result |-> result ]

NewSolver == Solver("newton", 0, Guess, "none", "none", 0, MinRate, BisectHigh, NaNDouble)

\* probe.before holds the flows, probe.val the reported irrNet
InitIrr ==
    /\ pc = "irr"
    /\ rng = NewRng(Small(0))
    /\ args = [params |-> "none", n |-> 0, seed |-> Small(0)]
    /\ simulations = <<>>
    /\ returned = NoCall
    /\ clock = NoClock
    /\ db = NoDb
    /\ requests = <<>>
    /\ run = NewSolver
    /\ \E s \in Series : probe = [op |-> "calculateIRR", before |-> s, val |-> NaNDouble]

SolverStep(next) ==
    /\ pc = "irr"
    /\ run' = next
    /\ UNCHANGED <<pc, args, rng, simulations, returned, clock, probe, db, requests>>

InNewton == pc = "irr" /\ run.stage = "newton" /\ run.i < maxIterations

\* lines 101-115: the NPV at the rate is below the tolerance
NewtonReturn ==
    /\ InNewton
    /\ run.rate.kind = "num" /\ probe.before.kind # "nan"
    /\ SolverStep([run EXCEPT !.stage = "returned", !.npv = "small", !.result = run.rate])

\* binarySearchIRR(cashFlows) is called: the locals of calculateIRR are left
\* behind
Fallback(why) == [NewSolver EXCEPT !.stage = "fallback", !.why = why]

\* lines 101-119 and 134: the derivative is below the tolerance
NewtonBreak ==
    /\ InNewton
    /\ run.rate.kind = "num" /\ probe.before.kind # "nan"
    /\ SolverStep(Fallback("derivative"))

\* lines 101-131: a step
NewtonStep ==
    /\ InNewton
    /\ \E newRate \in NewRates :
          /\ run.rate.kind = "nan" \/ probe.before.kind = "nan" => newRate.kind = "nan"
          /\ SolverStep([run EXCEPT !.i = @ + 1, !.rate = Clamp(newRate), !.npv = "other"])

NewtonDone == pc = "irr" /\ run.stage = "newton" /\ run.i >= maxIterations

\* lines 101 and 134: maxIterations steps were made
NewtonExhausted ==
    /\ NewtonDone
    /\ SolverStep(Fallback("iterations"))

\* lines 138-152
BisectStart ==
    /\ pc = "irr" /\ run.stage = "fallback"
    /\ SolverStep(IF probe.before.kind = "same-sign"
                  THEN [run EXCEPT !.stage = "returned", !.result = NaNDouble]
                  ELSE [run EXCEPT !.stage = "bisect"])

\* (low + high) / 2
Mid(low, high) == DoubleOverInt(DoublePlus(low, high), 2)

InBisect == pc = "irr" /\ run.stage = "bisect" /\ run.j < maxIterations

\* lines 154-159: the NPV at mid is below the tolerance
BisectReturn ==
    /\ InBisect
    /\ probe.before.kind # "nan"
    /\ SolverStep([run EXCEPT !.stage = "returned", !.result = Mid(run.low, run.high)])

\* npvLow * npvMid < 0
SignChanged(series, mid) ==
    \/ series.kind = "descend"
    \/ series.kind = "root" /\ DoubleLess(series.root, mid)

Halved(r, series, mid) ==
    IF SignChanged(series, mid) THEN [r EXCEPT !.j = @ + 1, !.high = mid]
    ELSE [r EXCEPT !.j = @ + 1, !.low = mid]

\* lines 154-166
BisectStep ==
    /\ InBisect
    /\ SolverStep(Halved(run, probe.before, Mid(run.low, run.high)))

BisectDone == pc = "irr" /\ run.stage = "bisect" /\ run.j >= maxIterations

\* lines 154 and 169
BisectExhausted ==
    /\ BisectDone
    /\ SolverStep([run EXCEPT !.stage = "returned", !.result = Mid(run.low, run.high)])

\* lines 316 and 326
Report ==
    /\ pc = "irr" /\ run.stage = "returned"
    /\ run' = [run EXCEPT !.stage = "reported"]
    /\ probe' = [probe EXCEPT !.val = Reported(run.result)]
    /\ UNCHANGED <<pc, args, rng, simulations, returned, clock, db, requests>>

NextIrr ==
    \/ NewtonReturn
    \/ NewtonBreak
    \/ NewtonStep
    \/ NewtonExhausted
    \/ BisectStart
    \/ BisectReturn
    \/ BisectStep
    \/ BisectExhausted
    \/ Report

SpecIrr == InitIrr /\ [][NextIrr]_vars

-----------------------------------------------------------------------------
(* Properties of the IRR solver, under SpecIrr *)

InRateRange(r) == r.kind = "num" /\ DoubleLeq(MinRate, r) /\ DoubleLeq(r, MaxRate)

IrrReported == pc = "irr" /\ run.stage = "reported"

\* C22: the reported irrNet is a finite number: 0 when the solver returned
\* NaN, and otherwise the solver's rate, which lies in [-0.99, 10].
IrrNetFinite ==
    IrrReported =>
        /\ probe.val.kind = "num"
        /\ run.result.kind = "nan" => probe.val = FromInt(0)
        /\ run.result.kind # "nan" => probe.val = run.result /\ InRateRange(probe.val)

\* the bisection found the same sign at both ends and 0 was reported
IrrNetFiniteWitness ==
    /\ IrrReported
    /\ probe.before.kind = "same-sign"
    /\ run.why = "iterations"
    /\ run.result.kind = "nan"
    /\ probe.val = FromInt(0)

\* C27: starting from 0.10, every rate produced by a step of Newton's loop is
\* clamped into [-0.99, 10] before it is used again.
RatesClamped == pc = "irr" /\ run.stage = "newton" => InRateRange(run.rate)

SolverSafe ==
    pc = "irr" =>
        /\ run.i <= maxIterations /\ run.j <= maxIterations
        /\ run.stage = "newton" => run.rate.kind = "nan" \/ InRateRange(run.rate)
        /\ run.stage = "newton" /\ run.i = 0 => run.rate = Guess
        /\ run.stage \in {"returned", "reported"} /\ run.why = "none" =>
               run.npv = "small" /\ run.result = run.rate /\ InRateRange(run.rate)
        /\ run.stage \in {"fallback", "bisect"} => run.why \in {"derivative", "iterations"}
        /\ run.stage = "bisect" => InRateRange(run.low) /\ InRateRange(run.high)

\* a step is at hand until the value is reported: Newton's loop can always
\* step (to a NaN rate at the least), and every other stage has its one way on
CanStep ==
    pc = "irr" /\ run.stage # "reported" =>
        \/ InNewton \/ NewtonDone
        \/ run.stage = "fallback"
        \/ InBisect \/ BisectDone
        \/ run.stage = "returned"

\* the number of steps the solver can still make, at most
Remaining(r) ==
    CASE r.stage = "newton"   -> (maxIterations - r.i) + maxIterations + 5
      [] r.stage = "fallback" -> maxIterations + 4
      [] r.stage = "bisect"   -> (maxIterations - r.j) + 2
      [] r.stage = "returned" -> 1
      [] r.stage = "reported" -> 0

\* What does hold of the solver: starting from 0.10, every rate produced by a
\* step is NaN or lies in [-0.99, 10]; the loop returns a rate only when the
\* NPV at that rate is below the tolerance; the solver hands over to the
\* bisection only when the derivative is below the tolerance or after 100
\* iterations, the bisection makes at most 100 iterations, and the solver
\* always terminates: it is never stuck and every step lowers the number of
\* steps that remain.
SolverTerminates ==
    /\ [](SolverSafe /\ CanStep)
    /\ [][Remaining(run') < Remaining(run)]_vars

\* Newton's loop ran out its 100 iterations (the flows hold a NaN, so on a NaN
\* rate) and so did the bisection
SolverTerminatesWitness ==
    /\ IrrReported
    /\ probe.before.kind = "nan"
    /\ run.why = "iterations" /\ run.j = maxIterations

-----------------------------------------------------------------------------
(* POST /api/valuations and addValuationUpdate, for one investment.  A         *)
(* request is a chain of awaits: requests interleave at every database call,   *)
(* and a database call may resolve with an error instead of doing its write.   *)

MaxRequests == 2

InvestmentId == "inv-1"

Valuations == {100, 250}

\* "" is a request without a date
Dates == {"", "2024-03-31", "2024-06-30"}

Bodies == [investmentId : {InvestmentId}, valuation : Valuations, date : Dates]

\* the investments row before any valuation update
NewInvestment ==
    [ id |-> InvestmentId, current_valuation |-> 0, last_valuation_date |-> "",
      updated_at |-> NoClock.now ]

\* json is <<>> for null and <<row>> for a row
Response(status, json) == [status |-> status, json |-> json]

Request(stage, body, valuationData, response) ==
    [stage |-> stage, body |-> body, valuationData |-> valuationData, response |-> response]

InitDb ==
    /\ pc = "db"
    /\ rng = NewRng(Small(0))
    /\ args = [params |-> "none", n |-> 0, seed |-> Small(0)]
    /\ simulations = <<>>
    /\ run = NoRun
    /\ returned = NoCall
    /\ clock = NoClock
    /\ probe = [op |-> "none", before |-> rng, val |-> 0]
    /\ db = [valuation_updates |-> <<>>, investments |-> NewInvestment]
    /\ requests = <<>>

DbStep(i, request) ==
    /\ pc = "db"
    /\ requests' = [requests EXCEPT ![i] = request]
    /\ UNCHANGED <<pc, args, rng, simulations, run, returned, clock, probe>>

\* POST, up to the call of addValuationUpdate: a request without a date is
\* answered with status 400
Post ==
    /\ pc = "db"
    /\ Len(requests) < MaxRequests
    /\ \E body \in Bodies :
          requests' = Append(requests,
              IF body.date = ""
              THEN Request("responded", body, <<>>, Response(400, <<>>))
              ELSE Request("insert", body, <<>>, Response(0, <<>>)))
    /\ UNCHANGED <<pc, args, rng, simulations, run, returned, clock, probe, db>>

Row(id, body) ==
    [id |-> id, investment_id |-> body.investmentId, valuation |-> body.valuation,
     date |-> body.date]

\* the insert into valuation_updates, returning the row
InsertRow(i) ==
    /\ requests[i].stage = "insert"
    /\ db' = [db EXCEPT !.valuation_updates =
                 Append(@, Row(Len(@) + 1, requests[i].body))]
    /\ DbStep(i, [requests[i] EXCEPT !.stage = "update",
                     !.valuationData =
                         <<Row(Len(db.valuation_updates) + 1, requests[i].body)>>])

\* valuationError: addValuationUpdate returns null, which POST sends
InsertFails(i) ==
    /\ requests[i].stage = "insert"
    /\ db' = db
    /\ DbStep(i, [requests[i] EXCEPT !.stage = "responded",
                     !.response = Response(200, <<>>)])

\* the update of the investments row, and the row returned and sent
UpdateInvestment(i) ==
    /\ requests[i].stage = "update"
    /\ \E now \in ClockReadings :
          db' = [db EXCEPT !.investments =
                    [@ EXCEPT !.current_valuation = requests[i].body.valuation,
                              !.last_valuation_date = requests[i].body.date,
                              !.updated_at = now]]
    /\ DbStep(i, [requests[i] EXCEPT !.stage = "responded",
                     !.response = Response(200, requests[i].valuationData)])

\* the update resolves with an error, which is not looked at
UpdateFails(i) ==
    /\ requests[i].stage = "update"
    /\ db' = db
    /\ DbStep(i, [requests[i] EXCEPT !.stage = "responded",
                     !.response = Response(200, requests[i].valuationData)])

NextDb ==
    \/ Post
    \/ \E i \in 1..Len(requests) :
          \/ InsertRow(i)
          \/ InsertFails(i)
          \/ UpdateInvestment(i)
          \/ UpdateFails(i)

SpecDb == InitDb /\ [][NextDb]_vars

\* every request made was answered with a row
AllReturnedRows ==
    /\ pc = "db"
    /\ Len(requests) >= 1
    /\ \A i \in 1..Len(requests) :
          requests[i].stage = "responded" /\ Len(requests[i].response.json) = 1

LastInserted == db.valuation_updates[Len(db.valuation_updates)]

\* C30: after any sequence of addValuationUpdate calls for one investment that
\* each returned a row, the investment's current_valuation and
\* last_valuation_date are those of the most recently inserted
\* valuation_updates row.
ValuationConsistent ==
    AllReturnedRows =>
        /\ db.investments.current_valuation = LastInserted.valuation
        /\ db.investments.last_valuation_date = LastInserted.date

=============================================================================
